---- MODULE Spec2Model ----
(***************************************************************************)
(* Half-edge planar mesh kernel of libs/mesh/mesh.py.                      *)
(*                                                                         *)
(* Every Python object (Vertex, Edge, Face) is a record in a heap, keyed   *)
(* by an object identity (oid).  A reference is an oid, None is 0.  The    *)
(* `is` operator of the source is equality of oids; `==` / `in` on         *)
(* components is equality of the id fields (MeshComponent.__eq__).         *)
(* The Mesh object is the record `mesh`: its three id-keyed dictionaries,  *)
(* the boundary edge, the id counter and the pending modification log.     *)
(*                                                                         *)
(* Coordinates are integers (one unit = 1.0, so truncate() to 4 decimals   *)
(* leaves them as they are); boundaries are rectilinear and cut directions *)
(* are multiples of 90 degrees, so every angle the code computes is an     *)
(* exact multiple of 90.                                                   *)
(***************************************************************************)
EXTENDS Integers, Sequences, FiniteSets, TLC

VARIABLES vertices, edges, faces, mesh, heard, last, steps, twin

vars == <<vertices, edges, faces, mesh, heard, last, steps, twin>>

(***************************************************************************)
(* Module constants of the source                                          *)
(***************************************************************************)
None == 0
COORD_EPSILON == 1
ANGLE_EPSILON == 2
MIN_ANGLE == 5

(***************************************************************************)
(* Bounds of the model                                                     *)
(***************************************************************************)
\* the number of operations a run applies to the mesh
MaxSteps == 2
\* side of the square envelope
Side == 20

ADD == "added"
REMOVE == "removed"
INSERT == "Insert"

VERTEX == "Vertex"
EDGE == "Edge"
FACE == "Face"

\* marker ending a traversal that did not come back to its first edge
BadWalk == -1

(***************************************************************************)
(* The state handed from statement to statement: the three heaps, the      *)
(* mesh record, the calls made to the watchers so far, the pending         *)
(* exception and the value returned.                                       *)
(***************************************************************************)
St == [V |-> vertices, E |-> edges, F |-> faces, M |-> mesh, W |-> heard,
       err |-> "none", ret |-> None]

Ok(S) == S.err = "none"
Raise(S, e) == IF Ok(S) THEN [S EXCEPT !.err = e] ELSE S
\* a local variable: Let([x \in {e} |-> body]) is body with x bound to the
\* value of e, which is computed once
Let(f) == f[CHOOSE d \in DOMAIN f : TRUE]
Ret(S, r) == IF Ok(S) THEN [S EXCEPT !.ret = r] ELSE S

\* f with k mapped to v, and f without k; @@ gives the function as a table
\* of its values rather than as a rule over f
Put(f, k, v) == (k :> v) @@ f
Del(f, k) == [x \in DOMAIN f \ {k} |-> f[x]] @@ <<>>
Range(s) == {s[i] : i \in 1..Len(s)}

(***************************************************************************)
(* libs/utils/geometry helpers, on integer vectors                         *)
(***************************************************************************)
Abs(n) == IF n < 0 THEN -n ELSE n
Sign(n) == IF n > 0 THEN 1 ELSE IF n < 0 THEN -1 ELSE 0
dot_product(a, b) == a[1] * b[1] + a[2] * b[2]
cross_product(a, b) == a[1] * b[2] - a[2] * b[1]
opposite_vector(a) == <<-a[1], -a[2]>>
\* squared distance: every comparison of a distance is made on squares
distance2(p, q) == (p[1] - q[1]) * (p[1] - q[1]) + (p[2] - q[2]) * (p[2] - q[2])
pseudo_equal(a, b, eps) == Abs(a - b) <= eps

\* direction of an axis-parallel vector, in degrees from (1, 0); arctan2 of
\* the null vector is 0.  A vector that is not axis-parallel is outside the
\* domain of the model (Rectilinear below): it is given the diagonal of its
\* quadrant.
abs_angle(v) ==
    IF v[2] = 0 /\ v[1] >= 0 THEN 0
    ELSE IF v[1] = 0 /\ v[2] > 0 THEN 90
    ELSE IF v[2] = 0 /\ v[1] < 0 THEN 180
    ELSE IF v[1] = 0 /\ v[2] < 0 THEN 270
    ELSE IF v[1] > 0 /\ v[2] > 0 THEN 45
    ELSE IF v[1] < 0 /\ v[2] > 0 THEN 135
    ELSE IF v[1] < 0 /\ v[2] < 0 THEN 225
    ELSE 315
\* counter clockwise angle from v1 to v2, in [0, 360)
ccw_angle(v1, v2) == (abs_angle(v2) - abs_angle(v1)) % 360
unit_vector(angle) ==
        Let([a \in {angle % 360} |->
        IF a = 0 THEN <<1, 0>>
        ELSE IF a = 90 THEN <<0, 1>>
        ELSE IF a = 180 THEN <<-1, 0>>
        ELSE <<0, -1>>])
unit(v) == <<Sign(v[1]), Sign(v[2])>>

(***************************************************************************)
(* Mesh: modification log, add, remove                                     *)
(***************************************************************************)
IdOf(S, kind, o) ==
    IF kind = VERTEX THEN S.V[o].id ELSE IF kind = EDGE THEN S.E[o].id ELSE S.F[o].id

InMesh(S, kind, o) ==
    IF kind = VERTEX THEN S.V[o].mesh ELSE IF kind = EDGE THEN S.E[o].mesh ELSE S.F[o].mesh

\* the tuple (op, (type, id), (other type, other id)) kept for a record; the
\* MeshOps member is written <<op>>, so that == between a member and a pair
\* is the comparison of two tuples, which is false as it is in Python
Stored(rec) == << <<rec.op>>, <<rec.type, rec.id>>, <<rec.otype, rec.oid>> >>

\* previous_op is read at index 1 of the stored tuple (the second of its
\* three elements)
store_modification(S, op, kind, o, okind, other) ==
    Let([cid \in {IdOf(S, kind, o)} |->
    Let([rec \in {[op |-> op, type |-> kind, id |-> cid,
                   otype |-> IF other = None THEN "" ELSE okind,
                   oid |-> IF other = None THEN None ELSE IdOf(S, okind, other)]} |->
        IF cid \notin DOMAIN S.M.modifications
        THEN [S EXCEPT !.M.modifications = Put(@, cid, rec)]
        ELSE Let([previous_op \in {Stored(S.M.modifications[cid])[2]} |->
             IF previous_op = <<REMOVE>> THEN Raise(S, "ValueError")
             ELSE IF previous_op \in {<<ADD>>, <<INSERT>>} /\ op = ADD THEN S
             ELSE IF previous_op \in {<<ADD>>, <<INSERT>>} /\ op = REMOVE
                  THEN [S EXCEPT !.M.modifications = Del(@, cid)]
             ELSE [S EXCEPT !.M.modifications = Put(@, cid, rec)]])])])

MeshAdd(S, kind, o) ==
    Let([new_id \in {S.M.counter + 1} |->
    Let([fresh \in {IdOf(S, kind, o) = None} |->
    Let([S1 \in {IF ~fresh THEN S
                 ELSE IF kind = VERTEX
                      THEN [S EXCEPT !.V[o].id = new_id, !.M.counter = new_id]
                 ELSE IF kind = EDGE
                      THEN [S EXCEPT !.E[o].id = new_id, !.M.counter = new_id]
                 ELSE [S EXCEPT !.F[o].id = new_id, !.M.counter = new_id]} |->
    Let([S2 \in {store_modification(S1, ADD, kind, o, "", None)} |->
    Let([cid \in {IdOf(S2, kind, o)} |->
        IF ~Ok(S2) THEN S2
        ELSE IF kind = VERTEX THEN [S2 EXCEPT !.M.vertices = Put(@, cid, o)]
        ELSE IF kind = EDGE THEN [S2 EXCEPT !.M.edges = Put(@, cid, o)]
        ELSE [S2 EXCEPT !.M.faces = Put(@, cid, o)]])])])])])

MeshRemove(S, kind, o) ==
    Let([cid \in {IdOf(S, kind, o)} |->
        IF kind = VERTEX
        THEN IF cid \notin DOMAIN S.M.vertices THEN S
             ELSE Let([S1 \in {store_modification(S, REMOVE, kind, o, "", None)} |->
                  IF ~Ok(S1) THEN S1
                  ELSE [S1 EXCEPT !.M.vertices = Del(@, cid), !.V[o].mesh = FALSE]])
        ELSE IF kind = EDGE
        THEN IF cid \notin DOMAIN S.M.edges THEN S
             ELSE Let([S1 \in {store_modification(S, REMOVE, kind, o, "", None)} |->
                  IF ~Ok(S1) THEN S1
                  ELSE [S1 EXCEPT !.M.edges = Del(@, cid), !.E[o].mesh = FALSE]])
        ELSE IF cid \notin DOMAIN S.M.faces THEN S
             ELSE Let([S1 \in {store_modification(S, REMOVE, kind, o, "", None)} |->
                  IF ~Ok(S1) THEN S1
                  ELSE [S1 EXCEPT !.M.faces = Del(@, cid), !.F[o].mesh = FALSE,
                                  !.M.left = @ \cup {o}]])])

remove_from_mesh(S, kind, o) ==
    IF ~Ok(S) THEN S
    ELSE IF o = None THEN Raise(S, "AttributeError")
    ELSE IF ~InMesh(S, kind, o) THEN S
    ELSE MeshRemove(S, kind, o)

(***************************************************************************)
(* Constructors                                                            *)
(***************************************************************************)
End(S, e) == IF S.E[e].next = None THEN None ELSE S.E[S.E[e].next].start

check_size(S, e) ==
    IF ~Ok(S) THEN S
    ELSE IF S.E[e].start # None /\ End(S, e) # None /\ S.E[e].start = End(S, e)
    THEN Raise(S, "ValueError")
    ELSE S

\* the object a constructor makes is a new one: no object of this mesh, and no
\* object of another mesh (base tells the meshes of the program apart), is it
At(S, n) == S.M.base + n
Fresh(S) == At(S, S.M.counter + 1)

NewVertex(S, x, y, mutable) ==
        Let([o \in {Fresh(S)} |->
        Let([S1 \in {[S EXCEPT !.V = Put(@, o, [id |-> None, x |-> x, y |-> y, edge |-> None,
                                    mutable |-> mutable, mesh |-> TRUE])]} |->
        Ret(MeshAdd(S1, VERTEX, o), o)])])

\* an Edge whose pair is not told of it
NewEdge_Alone(S, start, next_edge, pair, face) ==
        Let([o \in {Fresh(S)} |->
        Let([S1 \in {[S EXCEPT !.E = Put(@, o, [id |-> None, start |-> start, next |-> next_edge,
                                    pair |-> pair, face |-> face, mesh |-> TRUE])]} |->
        Ret(check_size(MeshAdd(S1, EDGE, o), o), o)])])

NewEdge(S, start, next_edge, pair, face) ==
        Let([o \in {Fresh(S)} |->
        Let([S1 \in {[S EXCEPT !.E = Put(@, o, [id |-> None, start |-> start, next |-> next_edge,
                                    pair |-> pair, face |-> face, mesh |-> TRUE])]} |->
        Let([S2 \in {IF pair = None THEN S1 ELSE [S1 EXCEPT !.E[pair].pair = o]} |->
        Ret(check_size(MeshAdd(S2, EDGE, o), o), o)])])])

NewFace(S, edge) ==
        Let([o \in {Fresh(S)} |->
        Let([S1 \in {[S EXCEPT !.F = Put(@, o, [id |-> None, edge |-> edge, mesh |-> TRUE])]} |->
        Ret(MeshAdd(S1, FACE, o), o)])])

(***************************************************************************)
(* Property setters                                                        *)
(***************************************************************************)
SetStart(S, e, v) ==
    IF ~Ok(S) THEN S ELSE IF e = None THEN Raise(S, "AttributeError")
    ELSE [S EXCEPT !.E[e].start = v]

SetPair(S, e, p) ==
    IF ~Ok(S) THEN S ELSE IF e = None THEN Raise(S, "AttributeError")
    ELSE IF p = None THEN Raise([S EXCEPT !.E[e].pair = None], "AttributeError")
    ELSE [S EXCEPT !.E[e].pair = p, !.E[p].pair = e]

SetNext(S, e, n) ==
    IF ~Ok(S) THEN S ELSE IF e = None THEN Raise(S, "AttributeError")
    ELSE check_size([S EXCEPT !.E[e].next = n], e)

\* a face setter that forgets the face
SetFace_Kept(S, e, f) ==
    IF ~Ok(S) THEN S ELSE IF e = None THEN Raise(S, "AttributeError")
    ELSE S
SetFace(S, e, f) ==
    IF ~Ok(S) THEN S ELSE IF e = None THEN Raise(S, "AttributeError")
    ELSE [S EXCEPT !.E[e].face = f]

SetVertexEdge(S, v, e) ==
    IF ~Ok(S) THEN S ELSE IF v = None THEN Raise(S, "AttributeError")
    ELSE [S EXCEPT !.V[v].edge = e]

\* an anchor setter that keeps the anchor the face has
SetFaceEdge_Kept(S, f, e) ==
    IF ~Ok(S) THEN S ELSE IF f = None THEN Raise(S, "AttributeError")
    ELSE S
SetFaceEdge(S, f, e) ==
    IF ~Ok(S) THEN S ELSE IF f = None THEN Raise(S, "AttributeError")
    ELSE [S EXCEPT !.F[f].edge = e]

SetBoundaryEdge(S, e) ==
    IF ~Ok(S) THEN S ELSE IF e = None THEN Raise(S, "AttributeError")
    ELSE IF S.E[e].face # None THEN Raise(S, "ValueError")
    ELSE [S EXCEPT !.M.edge = e]

(***************************************************************************)
(* Mesh.new_face_from_boundary and Mesh.from_boundary                      *)
(***************************************************************************)
\* twice the signed area of the ring (shapely is_ccw: positive)
RECURSIVE Shoelace(_, _)
Shoelace(pts, i) ==
    IF i > Len(pts) THEN 0
    ELSE
             Let([p \in {pts[i]} |->
             Let([q \in {pts[(i % Len(pts)) + 1]} |->
             cross_product(p, q) + Shoelace(pts, i + 1)])])

\* the points of shapely's LinearRing(boundary): a boundary that ends with
\* its first point is closed already
Ring(boundary) ==
    IF Len(boundary) > 1 /\ boundary[1] = boundary[Len(boundary)]
    THEN SubSeq(boundary, 1, Len(boundary) - 1) ELSE boundary

is_ccw(boundary) == Shoelace(Ring(boundary), 1) > 0

\* proper or improper intersection of two closed segments
OnSegment(p, a, b) ==
    /\ cross_product(<<b[1] - a[1], b[2] - a[2]>>, <<p[1] - a[1], p[2] - a[2]>>) = 0
    /\ dot_product(<<p[1] - a[1], p[2] - a[2]>>, <<p[1] - b[1], p[2] - b[2]>>) <= 0

Side3(a, b, c) == Sign(cross_product(<<b[1] - a[1], b[2] - a[2]>>, <<c[1] - a[1], c[2] - a[2]>>))

SegmentsMeet(a, b, c, d) ==
    \/ /\ Side3(a, b, c) * Side3(a, b, d) < 0
       /\ Side3(c, d, a) * Side3(c, d, b) < 0
    \/ OnSegment(c, a, b) \/ OnSegment(d, a, b)
    \/ OnSegment(a, c, d) \/ OnSegment(b, c, d)

\* shapely is_simple: the ring meets itself only at the shared end points of
\* consecutive segments
is_simple(boundary) ==
    LET n == Len(Ring(boundary))
        P(i) == boundary[i]
        Q(i) == boundary[(i % n) + 1]
    IN  \A i, j \in 1..n :
            i < j =>
              IF j = i + 1 \/ (i = 1 /\ j = n)
              THEN
                       Let([oi \in {IF j = i + 1 THEN P(i) ELSE Q(i)} |->
                       Let([oj \in {IF j = i + 1 THEN Q(j) ELSE P(j)} |->
                       ~OnSegment(oi, P(j), Q(j)) /\ ~OnSegment(oj, P(i), Q(i))])])
              ELSE ~SegmentsMeet(P(i), Q(i), P(j), Q(j))

\* the loop over boundary[1:]; acc carries previous_edge and
\* previous_pair_edge in S.ret
RECURSIVE BoundaryLoop(_, _, _, _, _, _)
BoundaryLoop(S, boundary, i, initial_face, previous_edge, previous_pair_edge) ==
    IF ~Ok(S) THEN S
    ELSE IF i > Len(boundary) THEN Ret(S, <<previous_edge, previous_pair_edge>>)
    ELSE
             Let([S1 \in {NewVertex(S, boundary[i][1], boundary[i][2], TRUE)} |->
             Let([new_vertex \in {S1.ret} |->
             Let([S2 \in {Let([T \in {S1} |-> IF Ok(T) THEN (NewEdge(T, new_vertex, None, None, initial_face)) ELSE T])} |->
             Let([new_edge \in {S2.ret} |->
             Let([S3 \in {SetVertexEdge(S2, new_vertex, new_edge)} |->
             Let([S4 \in {SetNext(S3, previous_edge, new_edge)} |->
             Let([S5 \in {Let([T \in {S4} |-> IF Ok(T) THEN ( NewEdge(T, new_vertex, previous_pair_edge,
                                         previous_edge, None)) ELSE T])} |->
             Let([new_pair_edge \in {S5.ret} |->
             BoundaryLoop(S5, boundary, i + 1, initial_face, new_edge, new_pair_edge)])])])])])])])])

\* the components of the face: the vertices, the edges and their pairs
BuildFace(S, boundary) ==
             Let([S1 \in {NewVertex(S, boundary[1][1], boundary[1][2], FALSE)} |->
             Let([initial_vertex \in {S1.ret} |->
             Let([S2 \in {NewEdge(S1, initial_vertex, None, None, None)} |->
             Let([initial_edge \in {S2.ret} |->
             Let([S3 \in {NewFace(S2, initial_edge)} |->
             Let([initial_face \in {S3.ret} |->
             Let([S4 \in {SetFace(S3, initial_edge, initial_face)} |->
             Let([S5 \in {SetVertexEdge(S4, initial_vertex, initial_edge)} |->
             Let([S6 \in {BoundaryLoop(S5, boundary, 2, initial_face, initial_edge, None)} |->
             Let([previous_edge \in {S6.ret[1]} |->
             Let([previous_pair_edge \in {S6.ret[2]} |->
             Let([S7 \in {SetNext(S6, previous_edge, initial_edge)} |->
             Let([S8 \in {Let([T \in {S7} |-> IF Ok(T) THEN ( NewEdge(T, initial_vertex, previous_pair_edge,
                                         previous_edge, None)) ELSE T])} |->
             Let([new_pair_edge \in {S8.ret} |->
             Let([S9 \in {Let([T \in {S8} |-> IF Ok(T) THEN (SetNext(T, T.E[initial_edge].pair, new_pair_edge)) ELSE T])} |->
             Ret(S9, initial_face)])])])])])])])])])])])])])])])

\* new_face_from_boundary that tests the boundary after it has created the
\* first vertex
new_face_from_boundary_Late(S, boundary) ==
    IF ~Ok(S) THEN S
    ELSE IF Len(boundary) <= 2 \/ ~is_ccw(boundary) \/ ~is_simple(boundary)
    THEN Raise(NewVertex(S, boundary[1][1], boundary[1][2], FALSE), "ValueError")
    ELSE BuildFace(S, boundary)

new_face_from_boundary(S, boundary) ==
    IF ~Ok(S) THEN S
    ELSE IF Len(boundary) <= 2 THEN Raise(S, "AssertionError")
    ELSE IF ~is_ccw(boundary) THEN Raise(S, "ValueError")
    ELSE IF ~is_simple(boundary) THEN Raise(S, "ValueError")
    ELSE BuildFace(S, boundary)

\* left is the history of _remove_face: the faces that were deleted from the
\* collection faces of the mesh
EmptyMesh == [vertices |-> <<>>, edges |-> <<>>, faces |-> <<>>, edge |-> None,
              watchers |-> <<>>, counter |-> 0, modifications |-> <<>>, left |-> {},
              base |-> 0]

EmptyState == [V |-> <<>>, E |-> <<>>, F |-> <<>>, M |-> EmptyMesh, W |-> <<>>,
               err |-> "none", ret |-> None]

from_boundary(boundary) ==
        Let([S1 \in {new_face_from_boundary(EmptyState, boundary)} |->
        Let([new_face \in {S1.ret} |->
        Ret(Let([T \in {S1} |-> IF Ok(T) THEN (SetBoundaryEdge(T, T.E[T.F[new_face].edge].pair)) ELSE T]), None)])])

(***************************************************************************)
(* Traversals                                                              *)
(***************************************************************************)
\* marker ending a traversal that never comes back to its first edge
HangWalk == -2
\* marker ending a traversal that met None where it needed an edge
NoneWalk == -3

WalkOk(w) == Len(w) > 0 /\ w[Len(w)] >= 0
Good(w) == IF Len(w) = 0 \/ WalkOk(w) THEN w ELSE SubSeq(w, 1, Len(w) - 1)
WalkErr(w) ==
    IF w[Len(w)] = HangWalk THEN "Hang"
    ELSE IF w[Len(w)] = NoneWalk THEN "AttributeError"
    ELSE "Exception"

\* Edge.siblings: the edge, then its next edges until the edge is met
\* again; an edge seen twice (compared by id) raises
RECURSIVE SibWalk(_, _, _, _)
SibWalk(E, self, cur, acc) ==
    IF cur = self THEN acc
    ELSE IF cur = None THEN Append(acc, NoneWalk)
    ELSE IF \E i \in 2..Len(acc) : E[acc[i]].id = E[cur].id THEN Append(acc, BadWalk)
    ELSE SibWalk(E, self, E[cur].next, Append(acc, cur))

siblings(S, e) == IF e = None THEN <<NoneWalk>> ELSE SibWalk(S.E, e, S.E[e].next, <<e>>)

\* Edge.previous; None stands for the exception it raises
previous(S, e) ==
        Let([w \in {siblings(S, e)} |->
        IF WalkOk(w) THEN w[Len(w)] ELSE None])

\* Edge.ccw, with BadWalk for an exception
ccw(S, e) ==
        Let([p \in {previous(S, e)} |->
        IF p = None THEN BadWalk
        ELSE IF S.E[p].pair = None THEN BadWalk
        ELSE S.E[p].pair])

\* Vertex.edges: the anchor edge, then edge.previous.pair until the anchor
\* is met again
RECURSIVE VEdgesWalk(_, _, _, _, _)
VEdgesWalk(S, first, cur, acc, fuel) ==
    IF cur = first THEN acc
    ELSE IF cur = BadWalk THEN Append(acc, BadWalk)
    ELSE IF fuel = 0 THEN Append(acc, HangWalk)
    ELSE VEdgesWalk(S, first, ccw(S, cur), Append(acc, cur), fuel - 1)

vertex_edges(S, v) ==
    IF S.V[v].edge = None THEN <<NoneWalk>>
    ELSE VEdgesWalk(S, S.V[v].edge, ccw(S, S.V[v].edge), <<S.V[v].edge>>,
                    Cardinality(DOMAIN S.E))

\* Face.edges
face_edges(S, f) == siblings(S, S.F[f].edge)

(***************************************************************************)
(* Edge geometry                                                           *)
(***************************************************************************)
coords(S, v) == <<S.V[v].x, S.V[v].y>>
vector(S, e) ==
        Let([a \in {coords(S, S.E[e].start)} |->
        Let([b \in {coords(S, End(S, e))} |->
        <<b[1] - a[1], b[2] - a[2]>>])])
edge_opposite_vector(S, e) == opposite_vector(vector(S, e))
\* Edge.normal up to its length, which no caller but a sign test uses
normal(S, e) == Let([v \in {vector(S, e)} |->
                                                <<-v[2], v[1]>>])
length2(S, e) == distance2(coords(S, S.E[e].start), coords(S, End(S, e)))

next_angle(S, e) == ccw_angle(vector(S, S.E[e].next), edge_opposite_vector(S, e))
previous_angle(S, e) == ccw_angle(vector(S, e), edge_opposite_vector(S, previous(S, e)))
next_is_aligned(S, e) == pseudo_equal(next_angle(S, e), 180, ANGLE_EPSILON)

is_close(S, v, w) == distance2(coords(S, v), coords(S, w)) <= COORD_EPSILON * COORD_EPSILON

(***************************************************************************)
(* Edge.preserve_references                                                *)
(***************************************************************************)
\* preserve_references without its last part, the anchor of the start vertex
preserve_references_NoVertex(S, e, other) ==
    IF ~Ok(S) THEN S
    ELSE IF e = None THEN Raise(S, "AttributeError")
    ELSE
        Let([target \in {IF other # None THEN other ELSE S.E[e].next} |->
        Let([f \in {S.E[e].face} |->
        Let([S1 \in {IF f # None /\ S.F[f].edge = e THEN SetFaceEdge(S, f, target) ELSE S} |->
        Let([S2 \in {IF ~Ok(S1) THEN S1
        ELSE IF ~S1.E[e].mesh THEN Raise(S1, "AttributeError")
        ELSE IF S1.M.edge = e THEN SetBoundaryEdge(S1, target)
        ELSE S1} |->
        S2])])])])
\* preserve_references without its first part, the anchor of the face
preserve_references_NoFace(S, e, other) ==
    IF ~Ok(S) THEN S
    ELSE IF e = None THEN Raise(S, "AttributeError")
    ELSE
        Let([target \in {IF other # None THEN other ELSE S.E[e].next} |->
        Let([S2 \in {IF ~S.E[e].mesh THEN Raise(S, "AttributeError")
                     ELSE IF S.M.edge = e THEN SetBoundaryEdge(S, target)
                     ELSE S} |->
        Let([st \in {S.E[e].start} |->
        IF ~Ok(S2) THEN S2
        ELSE IF st = None THEN Raise(S2, "AttributeError")
        ELSE IF S2.V[st].edge # e THEN S2
        ELSE IF other # None THEN SetVertexEdge(S2, st, other)
        ELSE IF ccw(S2, e) = BadWalk THEN Raise(S2, "Exception")
        ELSE SetVertexEdge(S2, st, ccw(S2, e))])])])

\* preserve_references without its second part, the boundary edge of the mesh
preserve_references_NoBoundary(S, e, other) ==
    IF ~Ok(S) THEN S
    ELSE IF e = None THEN Raise(S, "AttributeError")
    ELSE
        Let([target \in {IF other # None THEN other ELSE S.E[e].next} |->
        Let([f \in {S.E[e].face} |->
        Let([S2 \in {IF f # None /\ S.F[f].edge = e THEN SetFaceEdge(S, f, target) ELSE S} |->
        Let([st \in {S.E[e].start} |->
        IF ~Ok(S2) THEN S2
        ELSE IF st = None THEN Raise(S2, "AttributeError")
        ELSE IF S2.V[st].edge # e THEN S2
        ELSE IF other # None THEN SetVertexEdge(S2, st, other)
        ELSE IF ccw(S2, e) = BadWalk THEN Raise(S2, "Exception")
        ELSE SetVertexEdge(S2, st, ccw(S2, e))])])])])

preserve_references(S, e, other) ==
    IF ~Ok(S) THEN S
    ELSE IF e = None THEN Raise(S, "AttributeError")
    ELSE
        Let([target \in {IF other # None THEN other ELSE S.E[e].next} |->
        Let([f \in {S.E[e].face} |->
        Let([S1 \in {IF f # None /\ S.F[f].edge = e THEN SetFaceEdge(S, f, target) ELSE S} |->
        Let([S2 \in {IF ~Ok(S1) THEN S1
        ELSE IF ~S1.E[e].mesh THEN Raise(S1, "AttributeError")
        ELSE IF S1.M.edge = e THEN SetBoundaryEdge(S1, target)
        ELSE S1} |->
        Let([st \in {S.E[e].start} |->
        Let([S3 \in {IF ~Ok(S2) THEN S2
        ELSE IF st = None THEN Raise(S2, "AttributeError")
        ELSE IF S2.V[st].edge # e THEN S2
        ELSE IF other # None THEN SetVertexEdge(S2, st, other)
        ELSE IF ccw(S2, e) = BadWalk THEN Raise(S2, "Exception")
        ELSE SetVertexEdge(S2, st, ccw(S2, e))} |->
        S3])])])])])])

(***************************************************************************)
(* Vertex.snap_to, Vertex.clean                                            *)
(***************************************************************************)
RECURSIVE SetStarts(_, _, _, _)
SetStarts(S, es, i, v) ==
    IF i > Len(es) THEN S ELSE SetStarts(SetStart(S, es[i], v), es, i + 1, v)

RECURSIVE snap_loop(_, _, _, _)
snap_loop(S, v, others, i) ==
    IF ~Ok(S) THEN S
    ELSE IF i > Len(others) THEN Ret(S, v)
    ELSE IF others[i] = v THEN Ret(S, v)
    ELSE IF is_close(S, v, others[i])
    THEN
             Let([w \in {vertex_edges(S, v)} |->
             Let([S1 \in {IF S.V[v].edge = None THEN S
             ELSE IF ~WalkOk(w) THEN Raise(S, WalkErr(w))
             ELSE SetVertexEdge(SetStarts(S, w, 1, others[i]), v, None)} |->
             Let([S2 \in {IF Ok(S1) /\ S1.V[v].mesh THEN remove_from_mesh(S1, VERTEX, v) ELSE S1} |->
             Ret(S2, others[i])])])])
    ELSE snap_loop(S, v, others, i + 1)

\* a snap_to that finds no vertex close enough
snap_to_Never(S, v, others) ==
    IF ~Ok(S) THEN S ELSE IF v = None THEN Raise(S, "AttributeError")
    ELSE Ret(S, v)
snap_to(S, v, others) ==
    IF ~Ok(S) THEN S ELSE IF v = None THEN Raise(S, "AttributeError")
    ELSE snap_loop(S, v, others, 1)

\* Vertex.clean falling off its end: the list it returns is None
Nothing == <<None>>

clean_merge(S, v, previous_edge) ==
        Let([edge \in {S.V[v].edge} |->
        Let([S1 \in {preserve_references(S, edge, None)} |->
        Let([S2 \in {Let([T \in {S1} |-> IF Ok(T) THEN (preserve_references(T, T.E[T.E[edge].pair].next, None)) ELSE T])} |->
        Let([S3 \in {remove_from_mesh(S2, EDGE, edge)} |->
        Let([S4 \in {Let([T \in {S3} |-> IF Ok(T) THEN (remove_from_mesh(T, EDGE, T.E[T.E[edge].pair].next)) ELSE T])} |->
        Let([S5 \in {Let([T \in {S4} |-> IF Ok(T) THEN (SetNext(T, previous_edge, T.E[edge].next)) ELSE T])} |->
        Let([S6 \in {Let([T \in {S5} |-> IF Ok(T) THEN ( SetNext(T, T.E[edge].pair,
                                    T.E[T.E[T.E[edge].pair].next].next)) ELSE T])} |->
        Let([S7 \in {Let([T \in {S6} |-> IF Ok(T) THEN (SetPair(T, T.E[edge].pair, previous_edge)) ELSE T])} |->
        Let([S8 \in {Let([T \in {S7} |-> IF Ok(T) THEN (SetPair(T, previous_edge, T.E[edge].pair)) ELSE T])} |->
        Let([S9 \in {remove_from_mesh(S8, VERTEX, v)} |->
        Let([T \in {S9} |-> IF Ok(T) THEN (Ret(T, <<edge, T.E[T.E[edge].pair].next>>)) ELSE T])])])])])])])])])])])

\* a clean that finds nothing to remove
vertex_clean_Never(S, v) ==
    IF ~Ok(S) THEN S
    ELSE IF v = None THEN Raise(S, "AttributeError")
    ELSE Ret(S, <<>>)

vertex_clean(S, v) ==
    IF ~Ok(S) THEN S
    ELSE IF v = None THEN Raise(S, "AttributeError")
    ELSE IF ~S.V[v].mutable THEN Ret(S, <<>>)
    ELSE
             Let([w \in {vertex_edges(S, v)} |->
             IF ~WalkOk(w) THEN Raise(S, WalkErr(w))
             ELSE IF Len(w) > 2 THEN Ret(S, <<>>)
             ELSE IF Len(w) = 2
             THEN
                      Let([previous_edge \in {previous(S, S.V[v].edge)} |->
                      IF previous_edge = None THEN Raise(S, "Exception")
                      ELSE IF S.E[previous_edge].pair # w[2] THEN Raise(S, "ValueError")
                      ELSE IF next_is_aligned(S, previous_edge)
                      THEN clean_merge(S, v, previous_edge)
                      ELSE Ret(S, Nothing)])
             ELSE Ret(S, Nothing)])

(***************************************************************************)
(* Edge.split                                                              *)
(***************************************************************************)
\* split that gives the face of the edge to the two half-edges it creates
split_OneFace(S, e, v0) ==
    IF ~Ok(S) THEN S
    ELSE IF e = None \/ v0 = None THEN Raise(S, "AttributeError")
    ELSE
        Let([S0 \in {snap_to(S, v0, <<S.E[e].start, End(S, e)>>)} |->
        IF ~Ok(S0) THEN S0
        ELSE Let([vertex \in {S0.ret} |->
             IF vertex = S0.E[e].start THEN Ret(S0, e)
        ELSE IF vertex = End(S0, e) THEN Ret(S0, S0.E[e].next)
        ELSE Let([next_edge \in {S.E[e].next} |->
             Let([edge_pair \in {S.E[e].pair} |->
             Let([next_edge_pair \in {S.E[edge_pair].next} |->
             Let([S1 \in {NewEdge(S0, vertex, next_edge, edge_pair, S0.E[e].face)} |->
             Let([new_edge \in {S1.ret} |->
             Let([S2 \in {Let([T \in {S1} |-> IF Ok(T) THEN (NewEdge(T, vertex, next_edge_pair, e, T.E[e].face)) ELSE T])} |->
             Let([new_edge_pair \in {S2.ret} |->
             Let([S3 \in {Let([T \in {S2} |-> IF Ok(T) THEN ( IF T.V[vertex].edge # None THEN T
                            ELSE SetVertexEdge(T, vertex, new_edge)) ELSE T])} |->
             Let([S4 \in {SetNext(S3, new_edge_pair, next_edge_pair)} |->
             Let([S5 \in {SetNext(S4, new_edge, next_edge)} |->
             Let([S6 \in {SetNext(S5, e, new_edge)} |->
             Let([S7 \in {SetNext(S6, edge_pair, new_edge_pair)} |->
             Let([S8 \in {Let([T \in {S7} |-> IF Ok(T) THEN (store_modification(T, INSERT, EDGE, new_edge, EDGE, e)) ELSE T])} |->
             Let([S9 \in {Let([T \in {S8} |-> IF Ok(T) THEN ( store_modification(T, INSERT, EDGE, new_edge_pair,
                                               EDGE, T.E[e].pair)) ELSE T])} |->
             Ret(S9, new_edge)])])])])])])])])])])])])])])])])

split(S, e, v0) ==
    IF ~Ok(S) THEN S
    ELSE IF e = None \/ v0 = None THEN Raise(S, "AttributeError")
    ELSE
        Let([S0 \in {snap_to(S, v0, <<S.E[e].start, End(S, e)>>)} |->
        IF ~Ok(S0) THEN S0
        ELSE Let([vertex \in {S0.ret} |->
             IF vertex = S0.E[e].start THEN Ret(S0, e)
        ELSE IF vertex = End(S0, e) THEN Ret(S0, S0.E[e].next)
        ELSE Let([next_edge \in {S.E[e].next} |->
             Let([edge_pair \in {S.E[e].pair} |->
             Let([next_edge_pair \in {S.E[edge_pair].next} |->
             Let([S1 \in {NewEdge(S0, vertex, next_edge, edge_pair, S0.E[e].face)} |->
             Let([new_edge \in {S1.ret} |->
             Let([S2 \in {Let([T \in {S1} |-> IF Ok(T) THEN (NewEdge(T, vertex, next_edge_pair, e, T.E[edge_pair].face)) ELSE T])} |->
             Let([new_edge_pair \in {S2.ret} |->
             Let([S3 \in {Let([T \in {S2} |-> IF Ok(T) THEN ( IF T.V[vertex].edge # None THEN T
                            ELSE SetVertexEdge(T, vertex, new_edge)) ELSE T])} |->
             Let([S4 \in {SetNext(S3, new_edge_pair, next_edge_pair)} |->
             Let([S5 \in {SetNext(S4, new_edge, next_edge)} |->
             Let([S6 \in {SetNext(S5, e, new_edge)} |->
             Let([S7 \in {SetNext(S6, edge_pair, new_edge_pair)} |->
             Let([S8 \in {Let([T \in {S7} |-> IF Ok(T) THEN (store_modification(T, INSERT, EDGE, new_edge, EDGE, e)) ELSE T])} |->
             Let([S9 \in {Let([T \in {S8} |-> IF Ok(T) THEN ( store_modification(T, INSERT, EDGE, new_edge_pair,
                                               EDGE, T.E[e].pair)) ELSE T])} |->
             Ret(S9, new_edge)])])])])])])])])])])])])])])])])

(***************************************************************************)
(* project_point_on_segment (libs/utils/geometry) and Vertex.project_point *)
(***************************************************************************)
NoPoint == <<>>

\* length of an axis-parallel vector
seg_length(r) == Abs(r[1]) + Abs(r[2])

\* the point where the line through q along s meets the segment [a, b],
\* accepted up to epsilon beyond either end of the segment and, unless
\* no_direction, only on the side of q the vector points to
project_point_on_segment(q, s, a, b, no_direction, epsilon) ==
        Let([r \in {<<b[1] - a[1], b[2] - a[2]>>} |->
        Let([rxs \in {cross_product(r, s)} |->
        IF rxs = 0 THEN NoPoint
        ELSE Let([qa \in {<<q[1] - a[1], q[2] - a[2]>>} |->
             Let([t \in {cross_product(qa, s) * Sign(rxs)} |->
             Let([d \in {Abs(rxs)} |->
             Let([L \in {seg_length(r)} |->
             IF ~(-epsilon * d <= t * L /\ t * L <= (L + epsilon) * d) THEN NoPoint
        ELSE Let([u \in {cross_product(qa, r) * Sign(rxs)} |->
             IF ~no_direction /\ u < 0 THEN NoPoint
        ELSE <<a[1] + (r[1] * t) \div d, a[2] + (r[2] * t) \div d>>])])])])])])])

\* the loop of Vertex.project_point over face.edges; best is
\* <<closest_edge, closest_point, squared shortest_distance>>
RECURSIVE project_loop(_, _, _, _, _, _)
project_loop(S, v, vec, es, i, best) ==
    IF i > Len(es) THEN best
    ELSE
             Let([e \in {es[i]} |->
             IF dot_product(normal(S, e), vec) >= 0
             THEN project_loop(S, v, vec, es, i + 1, best)
             ELSE IF S.V[v].id = S.V[S.E[e].start].id \/ S.V[v].id = S.V[End(S, e)].id
             THEN project_loop(S, v, vec, es, i + 1, best)
             ELSE Let([p \in {project_point_on_segment(coords(S, v), vec, coords(S, S.E[e].start),
                                      coords(S, End(S, e)), FALSE, COORD_EPSILON)} |->
                  IF p = NoPoint
             THEN project_loop(S, v, vec, es, i + 1, best)
             ELSE Let([d2 \in {distance2(p, coords(S, v))} |->
                  IF best[1] = None \/ d2 < best[3]
             THEN project_loop(S, v, vec, es, i + 1, <<e, p, d2>>)
             ELSE project_loop(S, v, vec, es, i + 1, best)])])])

project_point(S, v, face, vec) ==
    IF ~Ok(S) THEN S
    ELSE IF v = None \/ face = None THEN Raise(S, "AttributeError")
    ELSE
             Let([w \in {face_edges(S, face)} |->
             IF ~WalkOk(w) THEN Raise(S, WalkErr(w))
             ELSE Let([best \in {project_loop(S, v, vec, Good(w), 1, <<None, NoPoint, 0>>)} |->
                  IF best[1] = None THEN Ret(S, <<None, None, 0>>)
             ELSE
                      Let([S1 \in {NewVertex(S, best[2][1], best[2][2], TRUE)} |->
                      Ret(S1, <<S1.ret, best[1], best[3]>>)])])])

(***************************************************************************)
(* Edge.intersect                                                          *)
(***************************************************************************)
NoMax == -1

\* intersect that leaves in the mesh the vertex it projected
intersect_Leaves(S, e, vec, max_length) ==
    IF ~Ok(S) THEN S
    ELSE
        Let([S1 \in {project_point(S, End(S, e), S.E[e].face, vec)} |->
        IF ~Ok(S1) THEN S1
        ELSE Let([data \in {S1.ret} |->
             IF data[1] = None THEN Ret(S1, None)
        ELSE IF max_length # NoMax /\ max_length * max_length < data[3]
        THEN Let([intersection_vertex \in {data[1]} |->
             Ret(S1, None)])
        ELSE Let([intersection_vertex \in {data[1]} |->
             Let([S2 \in {split(S1, data[2], intersection_vertex)} |->
             IF ~Ok(S2) THEN S2
        ELSE Let([closest_edge \in {S2.ret} |->
             IF closest_edge = None
        THEN Ret(S2, None)
        ELSE Let([p \in {previous(S2, closest_edge)} |->
             IF p = None THEN Raise(S2, "Exception")
        ELSE Ret(S2, p)])])])])])])

intersect(S, e, vec, max_length) ==
    IF ~Ok(S) THEN S
    ELSE
        Let([S1 \in {project_point(S, End(S, e), S.E[e].face, vec)} |->
        IF ~Ok(S1) THEN S1
        ELSE Let([data \in {S1.ret} |->
             IF data[1] = None THEN Ret(S1, None)
        ELSE IF max_length # NoMax /\ max_length * max_length < data[3]
        THEN Let([intersection_vertex \in {data[1]} |->
             Ret(remove_from_mesh(S1, VERTEX, intersection_vertex), None)])
        ELSE Let([intersection_vertex \in {data[1]} |->
             Let([S2 \in {split(S1, data[2], intersection_vertex)} |->
             IF ~Ok(S2) THEN S2
        ELSE Let([closest_edge \in {S2.ret} |->
             IF closest_edge = None
        THEN Ret(remove_from_mesh(S2, VERTEX, intersection_vertex), None)
        ELSE Let([p \in {previous(S2, closest_edge)} |->
             IF p = None THEN Raise(S2, "Exception")
        ELSE Ret(S2, p)])])])])])])

(***************************************************************************)
(* Edge.link                                                               *)
(***************************************************************************)
RECURSIVE SetFaces(_, _, _, _)
\* a loop over the edges of the new face that assigns none of them
SetFaces_None(S, es, i, f) == S
SetFaces(S, es, i, f) ==
    IF i > Len(es) THEN S ELSE SetFaces(SetFace(S, es[i], f), es, i + 1, f)

\* link without the statement that makes the edge the anchor of its face
link_NoAnchor(S, e, other) ==
    IF ~Ok(S) THEN S
    ELSE IF e = None \/ other = None THEN Raise(S, "AttributeError")
    ELSE IF S.E[e].face # S.E[other].face THEN Raise(S, "ValueError")
    ELSE IF S.E[other].next = e \/ S.E[e].next = other THEN Ret(S, None)
    ELSE IF End(S, e) = End(S, other) THEN Ret(S, None)
    ELSE
        Let([self_next \in {S.E[e].next} |->
        Let([S1 \in {NewEdge(S, End(S, e), S.E[other].next, None, S.E[e].face)} |->
        Let([new_edge \in {S1.ret} |->
        Let([S2 \in {S1} |->
        Let([S3 \in {Let([T \in {S2} |-> IF Ok(T) THEN (NewEdge(T, End(T, other), self_next, new_edge, None)) ELSE T])} |->
        Let([new_pair \in {S3.ret} |->
        Let([S4 \in {SetPair(S3, new_edge, new_pair)} |->
        Let([S5 \in {SetNext(S4, e, new_edge)} |->
        Let([S6 \in {SetNext(S5, other, new_pair)} |->
        Let([S7 \in {Let([T \in {S6} |-> IF Ok(T) THEN (NewFace(T, new_pair)) ELSE T])} |->
        Let([new_face \in {S7.ret} |->
        Let([w \in {siblings(S7, new_pair)} |->
        Let([S8 \in {Let([T \in {S7} |-> IF Ok(T) THEN (SetFaces(T, Good(w), 1, new_face)) ELSE T])} |->
        Let([S9 \in {IF Ok(S8) /\ ~WalkOk(w) THEN Raise(S8, WalkErr(w)) ELSE S8} |->
        Let([S10 \in {Let([T \in {S9} |-> IF Ok(T) THEN ( store_modification(T, INSERT, FACE, new_face,
                                               FACE, T.E[e].face)) ELSE T])} |->
        Ret(S10, new_face)])])])])])])])])])])])])])])])

\* link without the check that the edges are already linked
link_NoLinkedCheck(S, e, other) ==
    IF ~Ok(S) THEN S
    ELSE IF e = None \/ other = None THEN Raise(S, "AttributeError")
    ELSE IF S.E[e].face # S.E[other].face THEN Raise(S, "ValueError")
    ELSE IF End(S, e) = End(S, other) THEN Ret(S, None)
    ELSE
        Let([self_next \in {S.E[e].next} |->
        Let([S1 \in {NewEdge(S, End(S, e), S.E[other].next, None, S.E[e].face)} |->
        Let([new_edge \in {S1.ret} |->
        Let([S2 \in {Let([T \in {S1} |-> IF Ok(T) THEN ( IF T.E[e].face = None THEN Raise(T, "AttributeError")
                            ELSE SetFaceEdge(T, T.E[e].face, e)) ELSE T])} |->
        Let([S3 \in {Let([T \in {S2} |-> IF Ok(T) THEN (NewEdge(T, End(T, other), self_next, new_edge, None)) ELSE T])} |->
        Let([new_pair \in {S3.ret} |->
        Let([S4 \in {SetPair(S3, new_edge, new_pair)} |->
        Let([S5 \in {SetNext(S4, e, new_edge)} |->
        Let([S6 \in {SetNext(S5, other, new_pair)} |->
        Let([S7 \in {Let([T \in {S6} |-> IF Ok(T) THEN (NewFace(T, new_pair)) ELSE T])} |->
        Let([new_face \in {S7.ret} |->
        Let([w \in {siblings(S7, new_pair)} |->
        Let([S8 \in {Let([T \in {S7} |-> IF Ok(T) THEN (SetFaces(T, Good(w), 1, new_face)) ELSE T])} |->
        Let([S9 \in {IF Ok(S8) /\ ~WalkOk(w) THEN Raise(S8, WalkErr(w)) ELSE S8} |->
        Let([S10 \in {Let([T \in {S9} |-> IF Ok(T) THEN ( store_modification(T, INSERT, FACE, new_face,
                                               FACE, T.E[e].face)) ELSE T])} |->
        Ret(S10, new_face)])])])])])])])])])])])])])])])

link(S, e, other) ==
    IF ~Ok(S) THEN S
    ELSE IF e = None \/ other = None THEN Raise(S, "AttributeError")
    ELSE IF S.E[e].face # S.E[other].face THEN Raise(S, "ValueError")
    ELSE IF S.E[other].next = e \/ S.E[e].next = other THEN Ret(S, None)
    ELSE IF End(S, e) = End(S, other) THEN Ret(S, None)
    ELSE
        Let([self_next \in {S.E[e].next} |->
        Let([S1 \in {NewEdge(S, End(S, e), S.E[other].next, None, S.E[e].face)} |->
        Let([new_edge \in {S1.ret} |->
        Let([S2 \in {Let([T \in {S1} |-> IF Ok(T) THEN ( IF T.E[e].face = None THEN Raise(T, "AttributeError")
                            ELSE SetFaceEdge(T, T.E[e].face, e)) ELSE T])} |->
        Let([S3 \in {Let([T \in {S2} |-> IF Ok(T) THEN (NewEdge(T, End(T, other), self_next, new_edge, None)) ELSE T])} |->
        Let([new_pair \in {S3.ret} |->
        Let([S4 \in {SetPair(S3, new_edge, new_pair)} |->
        Let([S5 \in {SetNext(S4, e, new_edge)} |->
        Let([S6 \in {SetNext(S5, other, new_pair)} |->
        Let([S7 \in {Let([T \in {S6} |-> IF Ok(T) THEN (NewFace(T, new_pair)) ELSE T])} |->
        Let([new_face \in {S7.ret} |->
        Let([w \in {siblings(S7, new_pair)} |->
        Let([S8 \in {Let([T \in {S7} |-> IF Ok(T) THEN (SetFaces(T, Good(w), 1, new_face)) ELSE T])} |->
        Let([S9 \in {IF Ok(S8) /\ ~WalkOk(w) THEN Raise(S8, WalkErr(w)) ELSE S8} |->
        Let([S10 \in {Let([T \in {S9} |-> IF Ok(T) THEN ( store_modification(T, INSERT, FACE, new_face,
                                               FACE, T.E[e].face)) ELSE T])} |->
        Ret(S10, new_face)])])])])])])])])])])])])])])])

(***************************************************************************)
(* Edge.cut                                                                *)
(***************************************************************************)
NoVector == <<>>
\* cut returning None
NoCut == <<>>

_angle_inside_face(S, e, angle) ==
    /\ 180 - MIN_ANGLE > angle
    /\ angle > 180 - next_angle(S, e) + MIN_ANGLE

cut(S, e, v0, angle0, vec, max_length) ==
    IF ~Ok(S) THEN S
    ELSE IF S.E[e].face = None THEN Ret(S, NoCut)
    ELSE
        Let([S1 \in {snap_to(S, v0, <<S.E[e].start, End(S, e)>>)} |->
        IF ~Ok(S1) THEN S1
        ELSE Let([vertex \in {S1.ret} |->
             Let([at_start \in {vertex = S1.E[e].start} |->
             Let([prev \in {previous(S1, e)} |->
             IF at_start /\ prev = None THEN Raise(S1, "Exception")
        ELSE Let([angle1 \in {IF vec # NoVector THEN ccw_angle(vector(S, e), vec) ELSE angle0} |->
             Let([first_edge \in {IF at_start THEN prev ELSE e} |->
             Let([angle \in {IF at_start THEN angle1 + 180 - previous_angle(S1, e) ELSE angle1} |->
             IF vertex = End(S1, first_edge) /\ ~_angle_inside_face(S1, first_edge, angle)
        THEN Ret(S1, NoCut)
        ELSE Let([S2 \in {split(S1, first_edge, vertex)} |->
             Let([line_vector \in {IF vec # NoVector THEN vec
        ELSE unit_vector(abs_angle(vector(S2, e)) + angle)} |->
             Let([S3 \in {Let([T \in {S2} |-> IF Ok(T) THEN (intersect(T, first_edge, line_vector, max_length)) ELSE T])} |->
             IF ~Ok(S3) THEN S3
        ELSE Let([closest_edge \in {S3.ret} |->
             IF closest_edge = None THEN Ret(S3, NoCut)
        ELSE Let([S4 \in {Let([T \in {S3} |-> IF Ok(T) THEN (SetFaceEdge(T, T.E[first_edge].face, first_edge)) ELSE T])} |->
             Let([S5 \in {link(S4, first_edge, closest_edge)} |->
             IF ~Ok(S5) THEN S5
        ELSE Let([new_face \in {S5.ret} |->
             IF new_face = None /\ S5.E[closest_edge].next = first_edge
        THEN Let([first_edge_next \in {S4.E[first_edge].next} |->
             Ret(S5, <<first_edge_next, S5.E[S5.E[first_edge].pair].next, new_face>>)])
        ELSE Let([closest_edge_next \in {S4.E[closest_edge].next} |->
             Let([first_edge_next \in {S4.E[first_edge].next} |->
             Ret(S5, <<first_edge_next, closest_edge_next, new_face>>)])])])])])])])])])])])])])])])])

(***************************************************************************)
(* Edge.recursive_cut                                                      *)
(***************************************************************************)
\* no callback given
NoCallback == <<>>
\* A callback is the sequence of its answers: the answer to its first call,
\* to its second call, ...; the last answer is the answer to every later
\* call.
Rest(callback) == IF Len(callback) > 1 THEN Tail(callback) ELSE callback

\* distance between two vertices, to the unit
distance_to(S, v, w) ==
    Let([d \in {distance2(coords(S, v), coords(S, w))} |->
    CHOOSE r \in 0..(2 * Side + 2) : r * r <= d /\ d < (r + 1) * (r + 1)])

\* recursive_cut that returns what the next cut returned, None included
RECURSIVE recursive_cut_NoLast(_, _, _, _, _, _, _, _)
recursive_cut_NoLast(S, e, v0, angle0, traverse, vec, max_length, callback) ==
    IF ~Ok(S) THEN S
    ELSE IF S.E[e].face = None THEN Ret(S, NoCut)
    ELSE
        Let([angle \in {IF vec # NoVector THEN ccw_angle(vector(S, e), vec) ELSE angle0} |->
        Let([vector1 \in {IF vec # NoVector THEN vec
                          ELSE unit_vector(abs_angle(vector(S, e)) + angle0)} |->
        Let([S1 \in {cut(S, e, v0, angle, vector1, max_length)} |->
        IF ~Ok(S1) THEN S1
        ELSE IF S1.ret = NoCut THEN S1
        ELSE IF traverse \notin {"absolute", "relative"} THEN S1
        ELSE Let([new_edge_start \in {S1.ret[1]} |->
             Let([new_edge_end \in {S1.ret[2]} |->
             IF new_edge_end = None \/ S1.E[new_edge_end].pair = None
             THEN Raise(S1, "AttributeError")
        ELSE IF callback # NoCallback /\ Head(callback) THEN S1
        ELSE Let([max1 \in {IF max_length # NoMax /\ new_edge_start # None
                            THEN max_length - distance_to(S1, S1.E[new_edge_start].start,
                                                          S1.E[new_edge_end].start)
                            ELSE max_length} |->
             recursive_cut_NoLast(S1, S1.E[new_edge_end].pair, S1.E[new_edge_end].start,
                                  angle, traverse,
                                  IF traverse = "absolute" THEN vector1 ELSE NoVector,
                                  max1, Rest(callback))])])])])])])

\* The loop that looks for the 'correct' new_edge_end starts with
\* correct_edge = new_edge_end and goes on while "correct_edge is not
\* new_edge_end": its body is never run, and new_edge_end is the one of the
\* cut.  The callback has no effect on the mesh: only its answer is modelled.
RECURSIVE recursive_cut(_, _, _, _, _, _, _, _)
recursive_cut(S, e, v0, angle0, traverse, vec, max_length, callback) ==
    IF ~Ok(S) THEN S
    ELSE IF S.E[e].face = None THEN Ret(S, NoCut)
    ELSE
        Let([angle \in {IF vec # NoVector THEN ccw_angle(vector(S, e), vec) ELSE angle0} |->
        Let([vector1 \in {IF vec # NoVector THEN vec
                          ELSE unit_vector(abs_angle(vector(S, e)) + angle0)} |->
        Let([S1 \in {cut(S, e, v0, angle, vector1, max_length)} |->
        IF ~Ok(S1) THEN S1
        ELSE IF S1.ret = NoCut THEN S1
        ELSE IF traverse \notin {"absolute", "relative"} THEN S1
        ELSE Let([new_edge_start \in {S1.ret[1]} |->
             Let([new_edge_end \in {S1.ret[2]} |->
             IF new_edge_end = None \/ S1.E[new_edge_end].pair = None
             THEN Raise(S1, "AttributeError")
        ELSE IF callback # NoCallback /\ Head(callback) THEN S1
        ELSE Let([max1 \in {IF max_length # NoMax /\ new_edge_start # None
                            THEN max_length - distance_to(S1, S1.E[new_edge_start].start,
                                                          S1.E[new_edge_end].start)
                            ELSE max_length} |->
             Let([S2 \in {recursive_cut(S1, S1.E[new_edge_end].pair, S1.E[new_edge_end].start,
                                        angle, traverse,
                                        IF traverse = "absolute" THEN vector1 ELSE NoVector,
                                        max1, Rest(callback))} |->
             IF Ok(S2) /\ S2.ret = NoCut THEN Ret(S2, S1.ret) ELSE S2])])])])])])])

(***************************************************************************)
(* Edge.barycenter_cut                                                     *)
(***************************************************************************)
\* the point of the 'barycenter' transformation of the start of edge e with
\* its end, for the coefficient 1/2: the lattice point next to the middle of
\* the edge
Barycenter(S, e) ==
        Let([a \in {coords(S, S.E[e].start)} |->
        Let([b \in {coords(S, End(S, e))} |->
        <<a[1] + ((b[1] - a[1]) \div 2), a[2] + ((b[2] - a[2]) \div 2)>>])])

\* coeff2 is twice the coefficient: 0, 1 or 2; the angle is 90 and no vector
\* is given
barycenter_cut(S, e, coeff2) ==
    IF ~Ok(S) THEN S
    ELSE Let([S1 \in {IF coeff2 = 0 THEN Ret(S, S.E[e].start)
                      ELSE IF coeff2 = 2 THEN Ret(S, End(S, e))
                      ELSE Let([p \in {Barycenter(S, e)} |-> NewVertex(S, p[1], p[2], TRUE)])} |->
         Let([vertex \in {S1.ret} |->
         Let([S2 \in {cut(S1, e, vertex, 90, NoVector, NoMax)} |->
         IF Ok(S2) /\ S2.ret = NoCut /\ S2.V[vertex].edge = None
         THEN Ret(remove_from_mesh(S2, VERTEX, vertex), NoCut)
         ELSE S2])])])
(***************************************************************************)
(* Edge.remove, Edge.collapse                                              *)
(***************************************************************************)
\* is_internal that takes no edge for an internal edge
is_internal_Never(S, e) == FALSE

is_internal(S, e) == S.E[S.E[e].pair].face = S.E[e].face

\* index of the first edge of the walk whose next is its pair, 0 if none
FirstFolded(S, es) ==
        Let([hits \in {{i \in 1..Len(es) : S.E[es[i]].next = S.E[es[i]].pair}} |->
        IF hits = {} THEN 0 ELSE CHOOSE i \in hits : \A j \in hits : i <= j])

remove_isolated(S, e) ==
        Let([isolated_edge \in {IF S.E[e].next = S.E[e].pair THEN e ELSE S.E[e].pair} |->
        Let([isolated_pair \in {S.E[isolated_edge].pair} |->
        Let([S1 \in {preserve_references(S, isolated_edge, S.E[isolated_pair].next)} |->
        Let([S2 \in {Let([T \in {S1} |-> IF Ok(T) THEN ( preserve_references(T, T.E[isolated_edge].pair,
                                T.E[T.E[isolated_edge].pair].next)) ELSE T])} |->
        Let([S3 \in {Let([T \in {S2} |-> IF Ok(T) THEN (
           IF previous(T, isolated_edge) = None THEN Raise(T, "Exception")
           ELSE SetNext(T, previous(T, isolated_edge),
                        T.E[T.E[isolated_edge].pair].next)) ELSE T])} |->
        Let([S4 \in {Let([T \in {S3} |-> IF Ok(T) THEN (remove_from_mesh(T, VERTEX, End(T, isolated_edge))) ELSE T])} |->
        Let([T \in {S4} |-> IF Ok(T) THEN (vertex_clean(T, T.E[isolated_edge].start)) ELSE T])])])])])])])

\* the same, with the edges of the removed face left with their face
remove_separating_Kept(S, e, clean_vertex, removed_face, remaining_face) ==
        Let([S1 \in {preserve_references(S, e, None)} |->
        Let([S2 \in {Let([T \in {S1} |-> IF Ok(T) THEN (preserve_references(T, T.E[e].pair, None)) ELSE T])} |->
        Let([w \in {face_edges(S2, removed_face)} |->
        Let([S3 \in {Let([T \in {S2} |-> IF Ok(T) THEN T ELSE T])} |->
        Let([S4 \in {IF Ok(S3) /\ ~WalkOk(w) THEN Raise(S3, WalkErr(w)) ELSE S3} |->
        Let([S5 \in {remove_from_mesh(S4, FACE, removed_face)} |->
        Let([S6 \in {Let([T \in {S5} |-> IF Ok(T) THEN (
           IF previous(T, T.E[e].pair) = None THEN Raise(T, "Exception")
           ELSE SetNext(T, previous(T, T.E[e].pair), T.E[e].next)) ELSE T])} |->
        Let([S7 \in {Let([T \in {S6} |-> IF Ok(T) THEN (
           IF previous(T, e) = None THEN Raise(T, "Exception")
           ELSE SetNext(T, previous(T, e), T.E[T.E[e].pair].next)) ELSE T])} |->
        Let([S8 \in {IF ~clean_vertex THEN S7
        ELSE Let([T \in {S7} |-> IF Ok(T) THEN (vertex_clean(T, T.E[e].start)) ELSE T])} |->
        Let([S9 \in {IF ~clean_vertex THEN S8
        ELSE Let([T \in {S8} |-> IF Ok(T) THEN (vertex_clean(T, End(T, e))) ELSE T])} |->
        S9])])])])])])])])])])

remove_separating(S, e, clean_vertex, removed_face, remaining_face) ==
        Let([S1 \in {preserve_references(S, e, None)} |->
        Let([S2 \in {Let([T \in {S1} |-> IF Ok(T) THEN (preserve_references(T, T.E[e].pair, None)) ELSE T])} |->
        Let([w \in {face_edges(S2, removed_face)} |->
        Let([S3 \in {Let([T \in {S2} |-> IF Ok(T) THEN (SetFaces(T, Good(w), 1, remaining_face)) ELSE T])} |->
        Let([S4 \in {IF Ok(S3) /\ ~WalkOk(w) THEN Raise(S3, WalkErr(w)) ELSE S3} |->
        Let([S5 \in {remove_from_mesh(S4, FACE, removed_face)} |->
        Let([S6 \in {Let([T \in {S5} |-> IF Ok(T) THEN (
           IF previous(T, T.E[e].pair) = None THEN Raise(T, "Exception")
           ELSE SetNext(T, previous(T, T.E[e].pair), T.E[e].next)) ELSE T])} |->
        Let([S7 \in {Let([T \in {S6} |-> IF Ok(T) THEN (
           IF previous(T, e) = None THEN Raise(T, "Exception")
           ELSE SetNext(T, previous(T, e), T.E[T.E[e].pair].next)) ELSE T])} |->
        Let([S8 \in {IF ~clean_vertex THEN S7
        ELSE Let([T \in {S7} |-> IF Ok(T) THEN (vertex_clean(T, T.E[e].start)) ELSE T])} |->
        Let([S9 \in {IF ~clean_vertex THEN S8
        ELSE Let([T \in {S8} |-> IF Ok(T) THEN (vertex_clean(T, End(T, e))) ELSE T])} |->
        S9])])])])])])])])])])

RECURSIVE remove(_, _, _)
remove(S, e, clean_vertex) ==
    IF ~Ok(S) THEN S
    ELSE IF e = None THEN Raise(S, "AttributeError")
    ELSE
        Let([other_face \in {S.E[S.E[e].pair].face} |->
        Let([removed_face \in {IF S.E[e].face # None THEN S.E[e].face ELSE other_face} |->
        Let([remaining_face \in {IF S.E[e].face # None THEN other_face ELSE None} |->
        Let([S1 \in {IF is_internal(S, e)
        THEN IF S.E[e].next # S.E[e].pair /\ S.E[S.E[e].pair].next # e
             THEN Raise(S, "ValueError")
             ELSE remove_isolated(S, e)
        ELSE remove_separating(S, e, clean_vertex, removed_face, remaining_face)} |->
        Let([S2 \in {remove_from_mesh(S1, EDGE, e)} |->
        Let([S3 \in {Let([T \in {S2} |-> IF Ok(T) THEN (remove_from_mesh(T, EDGE, T.E[e].pair)) ELSE T])} |->
        IF ~Ok(S3) THEN S3
        ELSE IF remaining_face = None THEN Raise(S3, "AttributeError")
        ELSE Let([w \in {face_edges(S3, remaining_face)} |->
             Let([i \in {FirstFolded(S3, Good(w))} |->
             Let([S4 \in {IF i # 0 THEN remove(S3, w[i], TRUE)
                          ELSE IF ~WalkOk(w) THEN Raise(S3, WalkErr(w))
                          ELSE S3} |->
             Ret(S4, remaining_face)])])])])])])])])])

\* collapse that leaves the edge and its pair in the mesh
collapse_Kept(S, e) ==
    IF ~Ok(S) THEN S
    ELSE IF e = None THEN Raise(S, "AttributeError")
    ELSE
        Let([S0 \in {snap_to(S, S.E[e].start, <<End(S, e)>>)} |->
        Let([S1 \in {Let([T \in {S0} |-> IF Ok(T) THEN (SetStart(T, e, T.ret)) ELSE T])} |->
        Let([S2 \in {preserve_references(S1, e, None)} |->
        Let([S3 \in {Let([T \in {S2} |-> IF Ok(T) THEN (preserve_references(T, T.E[e].pair, None)) ELSE T])} |->
        Let([S4 \in {Let([T \in {S3} |-> IF Ok(T) THEN (
           IF previous(T, e) = None THEN Raise(T, "Exception")
           ELSE SetNext(T, previous(T, e), T.E[e].next)) ELSE T])} |->
        Let([S5 \in {Let([T \in {S4} |-> IF Ok(T) THEN (
           IF previous(T, T.E[e].pair) = None THEN Raise(T, "Exception")
           ELSE SetNext(T, previous(T, T.E[e].pair), T.E[T.E[e].pair].next)) ELSE T])} |->
        Ret(S5, None)])])])])])])

collapse(S, e) ==
    IF ~Ok(S) THEN S
    ELSE IF e = None THEN Raise(S, "AttributeError")
    ELSE
        Let([S0 \in {snap_to(S, S.E[e].start, <<End(S, e)>>)} |->
        Let([S1 \in {Let([T \in {S0} |-> IF Ok(T) THEN (SetStart(T, e, T.ret)) ELSE T])} |->
        Let([S2 \in {preserve_references(S1, e, None)} |->
        Let([S3 \in {Let([T \in {S2} |-> IF Ok(T) THEN (preserve_references(T, T.E[e].pair, None)) ELSE T])} |->
        Let([S4 \in {Let([T \in {S3} |-> IF Ok(T) THEN (
           IF previous(T, e) = None THEN Raise(T, "Exception")
           ELSE SetNext(T, previous(T, e), T.E[e].next)) ELSE T])} |->
        Let([S5 \in {Let([T \in {S4} |-> IF Ok(T) THEN (
           IF previous(T, T.E[e].pair) = None THEN Raise(T, "Exception")
           ELSE SetNext(T, previous(T, T.E[e].pair), T.E[T.E[e].pair].next)) ELSE T])} |->
        Let([S6 \in {remove_from_mesh(S5, EDGE, e)} |->
        Let([S7 \in {Let([T \in {S6} |-> IF Ok(T) THEN (remove_from_mesh(T, EDGE, T.E[e].pair)) ELSE T])} |->
        Ret(S7, None)])])])])])])])])

(***************************************************************************)
(* Mesh.watch, Face.clean, Face.merge                                      *)
(***************************************************************************)
\* a watcher is called with the dictionary of the pending modifications; a
\* call is kept as the watcher and the dictionary it was given
Call(w, modifications) == [watcher |-> w, modifications |-> modifications]

add_watcher(S, w) ==
    IF ~Ok(S) THEN S
    ELSE IF w \in Range(S.M.watchers) THEN S
    ELSE [S EXCEPT !.M.watchers = Append(@, w)]

\* watch that keeps the pending modifications
watch_Keeps(S) ==
    IF ~Ok(S) THEN S
    ELSE [S EXCEPT !.W = @ \o [i \in 1..Len(S.M.watchers) |->
                                 Call(S.M.watchers[i], S.M.modifications)]]

watch(S) ==
    IF ~Ok(S) THEN S
    ELSE [S EXCEPT !.W = @ \o [i \in 1..Len(S.M.watchers) |->
                                 Call(S.M.watchers[i], S.M.modifications)],
                   !.M.modifications = <<>>]

face_clean(S, f) ==
    IF ~Ok(S) THEN S
    ELSE IF f = None THEN Raise(S, "AttributeError")
    ELSE
        Let([edge_1 \in {S.F[f].edge} |->
        Let([edge_2 \in {S.E[edge_1].next} |->
        IF S.E[edge_2].next # edge_1 THEN Ret(S, f)
        ELSE Let([p1 \in {S.E[edge_1].pair} |->
             Let([p2 \in {S.E[edge_2].pair} |->
             Let([S1 \in {preserve_references(S, edge_1, p2)} |->
             Let([S2 \in {Let([T \in {S1} |-> IF Ok(T) THEN (preserve_references(T, edge_2, T.E[edge_1].pair)) ELSE T])} |->
             Let([S3 \in {Let([T \in {S2} |-> IF Ok(T) THEN (SetPair(T, T.E[edge_1].pair, p2)) ELSE T])} |->
             Let([S4 \in {Let([T \in {S3} |-> IF Ok(T) THEN (SetPair(T, T.E[edge_2].pair, p1)) ELSE T])} |->
             Let([S5 \in {remove_from_mesh(S4, EDGE, edge_1)} |->
             Let([S6 \in {remove_from_mesh(S5, EDGE, edge_2)} |->
             Let([S7 \in {remove_from_mesh(S6, FACE, f)} |->
             Ret(watch(S7), None)])])])])])])])])])])])

\* a merge that finds no shared edge
merge_Never(S, f, other) == IF ~Ok(S) THEN S ELSE Ret(S, None)

merge(S, f, other) ==
    IF ~Ok(S) THEN S
    ELSE
             Let([w \in {face_edges(S, f)} |->
             Let([es \in {Good(w)} |->
             Let([hits \in {{i \in 1..Len(es) : S.E[S.E[es[i]].pair].face = other}} |->
             IF hits # {} THEN Let([i \in {CHOOSE k \in hits : \A j \in hits : k <= j} |->
                               remove(S, es[i], TRUE)])
             ELSE IF ~WalkOk(w) THEN Raise(S, WalkErr(w))
             ELSE Ret(S, None)])])])

(***************************************************************************)
(* Face.simplify, Face.recursive_simplify, Mesh.simplify                   *)
(***************************************************************************)
\* the edge that simplify collapses for the small edge it has found
small_edge_of(S, edge) ==
    IF ~S.V[S.E[edge].start].mutable THEN edge
    ELSE Let([end_aligned \in {pseudo_equal(
                 ccw_angle(opposite_vector(vector(S, previous(S, S.E[edge].pair))),
                           vector(S, S.E[edge].next)), 180, ANGLE_EPSILON)} |->
         Let([start_aligned \in {pseudo_equal(
                 ccw_angle(opposite_vector(vector(S, previous(S, edge))),
                           vector(S, S.E[S.E[edge].pair].next)), 180, ANGLE_EPSILON)} |->
         IF ~end_aligned /\ start_aligned THEN S.E[edge].pair ELSE edge])])

RECURSIVE simplify(_, _)
simplify(S, f) ==
    IF ~Ok(S) THEN S
    ELSE Let([S1 \in {face_clean(S, f)} |->
         IF ~Ok(S1) THEN S1
         ELSE IF S1.ret = None THEN Ret(S1, <<>>)
         ELSE Let([w \in {face_edges(S1, f)} |->
              Let([es \in {Good(w)} |->
              Let([small \in {{i \in 1..Len(es) :
                                 length2(S1, es[i]) <= COORD_EPSILON * COORD_EPSILON}} |->
              IF small = {} THEN (IF WalkOk(w) THEN Ret(S1, <<>>) ELSE Raise(S1, WalkErr(w)))
              ELSE Let([edge \in {es[CHOOSE k \in small : \A j \in small : k <= j]} |->
                   IF ~(S1.V[S1.E[edge].start].mutable \/ S1.V[End(S1, edge)].mutable)
                   THEN Ret(S1, <<>>)
                   ELSE IF previous(S1, edge) = None \/ previous(S1, S1.E[edge].pair) = None
                   THEN Raise(S1, "Exception")
                   ELSE Let([small_edge \in {small_edge_of(S1, edge)} |->
                        Let([S2 \in {collapse(S1, small_edge)} |->
                        Let([S3 \in {simplify(S2, f)} |->
                        IF Ok(S3) THEN Ret(S3, <<small_edge, S3.E[small_edge].pair>> \o S3.ret)
                        ELSE S3])])])])])])])])

\* the list of modified edges is the list that the loop walks, and it grows
\* while it is walked
RECURSIVE recursive_simplify(_, _)
RECURSIVE recursive_loop(_, _, _)
recursive_loop(S, total, i) ==
    IF ~Ok(S) THEN S
    ELSE IF i > Len(total) THEN Ret(S, total)
    ELSE Let([g \in {S.E[S.E[total[i]].pair].face} |->
         IF g = None THEN recursive_loop(S, total, i + 1)
         ELSE Let([S1 \in {recursive_simplify(S, g)} |->
              IF Ok(S1) THEN recursive_loop(S1, total \o S1.ret, i + 1) ELSE S1])])

recursive_simplify(S, f) ==
    IF ~Ok(S) THEN S
    ELSE Let([S1 \in {simplify(S, f)} |->
         IF Ok(S1) THEN recursive_loop(S1, S1.ret, 1) ELSE S1])

\* Mesh.simplify: the faces are the ones of the mesh when it is called, in
\* the order in which the mesh got them
RECURSIVE mesh_simplify_loop(_, _, _)
mesh_simplify_loop(S, ids, modified) ==
    IF ~Ok(S) THEN S
    ELSE IF ids = {} THEN Ret(S, modified)
    ELSE Let([i \in {CHOOSE k \in ids : \A j \in ids : k <= j} |->
         Let([S1 \in {recursive_simplify(S, i)} |->
         IF Ok(S1) THEN mesh_simplify_loop(S1, ids \ {i}, modified \o S1.ret) ELSE S1])])

mesh_simplify(S) == mesh_simplify_loop(S, DOMAIN S.M.faces, <<>>)

(***************************************************************************)
(* Mesh.serialize, Mesh.deserialize                                        *)
(***************************************************************************)
\* the "" that serialize writes where there is no face, and no boundary
\* edge
Blank == -1

\* the value is a dictionary: "edge", "vertices" (id -> coordinates) and
\* "edges" (id -> start id, next id, pair id, face id or "")
serialize(S) ==
    IF ~Ok(S) THEN S
    ELSE IF \E i \in DOMAIN S.M.edges :
                   Let([e \in {S.M.edges[i]} |->
                   S.E[e].start = None \/ S.E[e].next = None \/ S.E[e].pair = None])
    THEN Raise(S, "AttributeError")
    ELSE Ret(S, [edge |-> IF S.M.edge = None THEN Blank ELSE S.E[S.M.edge].id,
                 vertices |-> [i \in DOMAIN S.M.vertices |-> coords(S, S.M.vertices[i])],
                 edges |-> [i \in DOMAIN S.M.edges |->

                                  Let([e \in {S.M.edges[i]} |->
                                  <<S.V[S.E[e].start].id,
                                    S.E[S.E[e].next].id,
                                    S.E[S.E[e].pair].id,
                                    IF S.E[e].face = None THEN Blank
                                    ELSE S.F[S.E[e].face].id>>])]])

\* the truth value of an entry of the dictionary: "" and 0 are false
Truthy(x) == x # Blank /\ x # 0

\* the keys of a dictionary come in the order they were inserted, which for
\* the components of a mesh is the order of their ids
RECURSIVE Ascending(_)
Ascending(s) ==
    IF s = {} THEN <<>>
    ELSE
             Let([m \in {CHOOSE x \in s : \A y \in s : x <= y} |->
             <<m>> \o Ascending(s \ {m})])

\* Vertex(self, point[0], point[1], _id=_id)
RECURSIVE des_vertices(_, _, _)
des_vertices(S, value, ids) ==
    IF ids = <<>> \/ ~Ok(S) THEN S
    ELSE
             Let([id \in {Head(ids)} |->
             Let([point \in {value.vertices[id]} |->
             Let([S1 \in {[S EXCEPT !.V = Put(@, At(S, id), [id |-> id, x |-> point[1], y |-> point[2],
                                         edge |-> None, mutable |-> TRUE,
                                         mesh |-> TRUE])]} |->
             des_vertices(MeshAdd(S1, VERTEX, At(S, id)), value, Tail(ids))])])])

\* Edge(self, start, _id=_id), the anchor of its start and its face
des_edge(S, value, id) ==
        Let([start_id \in {value.edges[id][1]} |->
        IF start_id \notin DOMAIN S.M.vertices THEN Raise(S, "KeyError")
        ELSE
            Let([face_id \in {IF Truthy(value.edges[id][4]) THEN value.edges[id][4] ELSE None} |->
            Let([start \in {S.M.vertices[start_id]} |->
            Let([edge \in {At(S, id)} |->
            Let([S1 \in {[S EXCEPT !.E = Put(@, edge, [id |-> id, start |-> start, next |-> None,
                                        pair |-> None, face |-> None, mesh |-> TRUE])]} |->
            Let([S2 \in {check_size(MeshAdd(S1, EDGE, edge), edge)} |->
            Let([S3 \in {Let([T \in {S2} |-> IF Ok(T) THEN ( IF T.V[start].edge # None THEN T
                                ELSE SetVertexEdge(T, start, edge)) ELSE T])} |->
            Let([S4 \in {Let([T \in {S3} |-> IF Ok(T) THEN (
               IF face_id = None THEN T
               ELSE IF face_id \in DOMAIN T.M.faces
               THEN SetFace(T, edge, T.M.faces[face_id])
               ELSE
                        Let([T1 \in {[T EXCEPT !.F = Put(@, At(T, face_id),
                            [id |-> face_id, edge |-> edge, mesh |-> TRUE])]} |->
                        SetFace(MeshAdd(T1, FACE, At(T, face_id)), edge, At(T, face_id))])) ELSE T])} |->
            S4])])])])])])])])

RECURSIVE des_edges(_, _, _)
des_edges(S, value, ids) ==
    IF ids = <<>> \/ ~Ok(S) THEN S
    ELSE des_edges(des_edge(S, value, Head(ids)), value, Tail(ids))

\* edge.pair = pair, edge.next = next_edge
\* the same with the ids of next and pair taken for one another
des_link_Swapped(S, value, id) ==
        Let([next_id \in {value.edges[id][3]} |->
        Let([pair_id \in {value.edges[id][2]} |->
        IF pair_id \notin DOMAIN S.M.edges \/ next_id \notin DOMAIN S.M.edges
        THEN Raise(S, "KeyError")
        ELSE SetNext(SetPair(S, S.M.edges[id], S.M.edges[pair_id]),
                     S.M.edges[id], S.M.edges[next_id])])])
des_link(S, value, id) ==
        Let([next_id \in {value.edges[id][2]} |->
        Let([pair_id \in {value.edges[id][3]} |->
        IF pair_id \notin DOMAIN S.M.edges \/ next_id \notin DOMAIN S.M.edges
        THEN Raise(S, "KeyError")
        ELSE SetNext(SetPair(S, S.M.edges[id], S.M.edges[pair_id]),
                     S.M.edges[id], S.M.edges[next_id])])])

RECURSIVE des_links(_, _, _)
des_links(S, value, ids) ==
    IF ids = <<>> \/ ~Ok(S) THEN S
    ELSE des_links(des_link(S, value, Head(ids)), value, Tail(ids))

_reset_counter(S) ==
        IF ~Ok(S) THEN S
        ELSE Let([ids \in {DOMAIN S.M.vertices \cup DOMAIN S.M.faces \cup DOMAIN S.M.edges} |->
             IF ids = {} THEN Raise(S, "ValueError")
        ELSE [S EXCEPT !.M.counter = CHOOSE m \in ids : \A i \in ids : i <= m]])

\* mesh.deserialize(value), after the mesh.clear() it starts with
deserialize_into(S0, value) ==
        Let([S1 \in {des_vertices(S0, value, Ascending(DOMAIN value.vertices))} |->
        Let([S2 \in {des_edges(S1, value, Ascending(DOMAIN value.edges))} |->
        Let([S3 \in {des_links(S2, value, Ascending(DOMAIN value.edges))} |->
        Let([S4 \in {Let([T \in {S3} |-> IF Ok(T) THEN (
           IF ~Truthy(value.edge) THEN T
           ELSE IF value.edge \notin DOMAIN T.M.edges THEN Raise(T, "KeyError")
           ELSE SetBoundaryEdge(T, T.M.edges[value.edge])) ELSE T])} |->
        Ret(_reset_counter(S4), None)])])])])

\* Mesh().deserialize(value)
deserialize(value) == deserialize_into(EmptyState, value)
(***************************************************************************)
(* Face geometry: coords, area, contains                                   *)
(***************************************************************************)
\* Face.coords: the coordinates of the starts of the edges of the face
face_coords(S, f) ==
        Let([w \in {Good(face_edges(S, f))} |->
        [i \in 1..Len(w) |-> coords(S, S.E[w[i]].start)]])

\* Face.area, doubled: shapely gives the area of the ring of the face
area2(S, f) == Abs(Shoelace(face_coords(S, f), 1))

\* the segment from a to b passes on the right of the centre of the unit
\* cell whose lower left corner is c
Crossing(a, b, c) ==
    /\ (2 * a[2] > 2 * c[2] + 1) # (2 * b[2] > 2 * c[2] + 1)
    /\ Let([dy \in {b[2] - a[2]} |->
       Let([lhs \in {2 * a[1] * dy + (2 * c[2] + 1 - 2 * a[2]) * (b[1] - a[1])} |->
       IF dy > 0 THEN lhs > (2 * c[1] + 1) * dy ELSE lhs < (2 * c[1] + 1) * dy])])

\* the unit cell whose lower left corner is c lies inside the ring pts
InsideRing(pts, c) ==
    Cardinality({i \in 1..Len(pts) : Crossing(pts[i], pts[(i % Len(pts)) + 1], c)}) % 2 = 1

\* the unit cell lies within COORD_EPSILON of the inside of the ring: it is
\* inside, or next to a cell that is
InsideDilated(pts, c) ==
    \E d \in {<<0, 0>>, <<1, 0>>, <<-1, 0>>, <<0, 1>>, <<0, -1>>} :
        InsideRing(pts, <<c[1] + COORD_EPSILON * d[1], c[2] + COORD_EPSILON * d[2]>>)

\* the coordinates, along axis k, where the answer for a cell may change
Breaks(ps, qs, k) ==
    Let([lo \in {CHOOSE x \in {qs[i][k] : i \in 1..Len(qs)} : \A j \in 1..Len(qs) : x <= qs[j][k]} |->
    Let([hi \in {CHOOSE x \in {qs[i][k] : i \in 1..Len(qs)} : \A j \in 1..Len(qs) : x >= qs[j][k]} |->
    {x \in {qs[i][k] : i \in 1..Len(qs)}
            \cup {ps[i][k] + d : i \in 1..Len(ps), d \in {-COORD_EPSILON, 0, COORD_EPSILON}} :
        lo <= x /\ x < hi}])])

\* Face.contains: the polygon of the face, dilated by COORD_EPSILON,
\* contains the polygon of the other face
contains(S, f, other) ==
        Let([ps \in {face_coords(S, f)} |->
        Let([qs \in {face_coords(S, other)} |->
        \A x \in Breaks(ps, qs, 1) : \A y \in Breaks(ps, qs, 2) :
            InsideRing(qs, <<x, y>>) => InsideDilated(ps, <<x, y>>)])])

\* Face.crosses: shapely's crosses is false for two polygons
crosses(S, f, other) == FALSE

is_insertable(S, f, other) ==
    IF ~Ok(S) THEN S
    ELSE IF ~WalkOk(face_edges(S, f)) THEN Raise(S, WalkErr(face_edges(S, f)))
    ELSE IF ~WalkOk(face_edges(S, other)) THEN Raise(S, WalkErr(face_edges(S, other)))
    ELSE IF ~contains(S, f, other)
    THEN IF crosses(S, f, other) THEN Raise(S, "ValueError")
         ELSE Raise(S, "OutsideFaceError")
    ELSE S

\* the point p lies inside the polygon of the face eroded by COORD_EPSILON
InsideEroded(pts, p) ==
    \A d \in {<<0, 0>>, <<-1, 0>>, <<0, -1>>, <<-1, -1>>} :
        InsideRing(pts, <<p[1] + COORD_EPSILON * d[1], p[2] + COORD_EPSILON * d[2]>>)

\* edge.as_sp.intersects(face.as_sp_eroded): a point of the edge lies in the
\* eroded polygon of the face
intersects_eroded(S, e, face) ==
        Let([a \in {coords(S, S.E[e].start)} |->
        Let([b \in {coords(S, End(S, e))} |->
        Let([pts \in {face_coords(S, face)} |->
        \E x \in (IF a[1] <= b[1] THEN a[1]..b[1] ELSE b[1]..a[1]) :
        \E y \in (IF a[2] <= b[2] THEN a[2]..b[2] ELSE b[2]..a[2]) :
            OnSegment(<<x, y>>, a, b) /\ InsideEroded(pts, <<x, y>>)])])])

(***************************************************************************)
(* Face.add_exterior, Mesh.remove_face_and_children, Face.swap             *)
(***************************************************************************)
\* the pairs of the edges es
PairsOf(S, es) == [i \in 1..Len(es) |-> S.E[es[i]].pair]

\* add_exterior that leaves the pairs of the edges as they are
add_exterior_Skipped(S, face, other) == S

add_exterior(S, face, other) ==
    IF ~Ok(S) THEN S
    ELSE Let([w \in {face_edges(S, face)} |->
         Let([S1 \in {SetFaces(S, PairsOf(S, Good(w)), 1, other)} |->
         IF Ok(S1) /\ ~WalkOk(w) THEN Raise(S1, WalkErr(w)) ELSE S1])])

\* the loop of remove_face_and_children over the edges of the face
RECURSIVE remove_children(_, _, _)
remove_children(S, es, i) ==
    IF ~Ok(S) \/ i > Len(es) THEN S
    ELSE Let([edge \in {es[i]} |->
         Let([S1 \in {IF S.E[edge].mesh THEN MeshRemove(S, EDGE, edge) ELSE S} |->
         Let([S2 \in {IF ~Ok(S1) THEN S1
                      ELSE IF S1.E[edge].pair = None THEN Raise(S1, "AttributeError")
                      ELSE IF S1.E[S1.E[edge].pair].mesh
                      THEN MeshRemove(S1, EDGE, S1.E[edge].pair) ELSE S1} |->
         Let([S3 \in {IF ~Ok(S2) THEN S2
                      ELSE IF S2.E[edge].start = None THEN Raise(S2, "AttributeError")
                      ELSE IF S2.V[S2.E[edge].start].mesh
                      THEN MeshRemove(S2, VERTEX, S2.E[edge].start) ELSE S2} |->
         remove_children(S3, es, i + 1)])])])])

\* remove_face_and_children that removes nothing
remove_face_and_children_Kept(S, face) == S

remove_face_and_children(S, face) ==
    IF ~Ok(S) THEN S
    ELSE IF S.F[face].id \notin DOMAIN S.M.faces THEN Raise(S, "ValueError")
    ELSE Let([w \in {face_edges(S, face)} |->
         Let([S1 \in {remove_children(S, Good(w), 1)} |->
         IF ~Ok(S1) THEN S1
         ELSE IF ~WalkOk(w) THEN Raise(S1, WalkErr(w))
         ELSE MeshRemove(S1, FACE, face)])])

\* MeshComponent.add_to_mesh; id is None when no id is given
add_to_mesh(S, kind, o, id) ==
    IF ~Ok(S) THEN S
    ELSE IF id # None
            /\ id \in DOMAIN S.M.vertices \cup DOMAIN S.M.edges \cup DOMAIN S.M.faces
    THEN Raise(S, "AssertionError")
    ELSE MeshAdd(IF kind = VERTEX THEN [S EXCEPT !.V[o].id = id, !.V[o].mesh = TRUE]
                 ELSE IF kind = EDGE THEN [S EXCEPT !.E[o].id = id, !.E[o].mesh = TRUE]
                 ELSE [S EXCEPT !.F[o].id = id, !.F[o].mesh = TRUE], kind, o)

\* the loops of swap that give to each vertex of the new face the last edge
\* of the face that starts at it
RECURSIVE swap_anchors(_, _, _)
swap_anchors(S, es, i) ==
    IF ~Ok(S) \/ i > Len(es) THEN S
    ELSE Let([vertex \in {S.E[es[i]].start} |->
         Let([hits \in {{j \in 1..Len(es) : S.E[es[j]].start = vertex}} |->
         swap_anchors(SetVertexEdge(S, vertex, es[CHOOSE j \in hits : \A k \in hits : k <= j]),
                      es, i + 1)])])

\* Face.swap(face); face is None for swap()
swap(S, f, face) ==
    IF ~Ok(S) THEN S
    ELSE Let([S1 \in {IF face = None THEN NewFace(S, S.F[f].edge)
                      ELSE add_to_mesh(SetFaceEdge(S, face, S.F[f].edge), FACE, face,
                                       S.F[face].id)} |->
         IF ~Ok(S1) THEN S1
         ELSE Let([new_face \in {IF face = None THEN S1.ret ELSE face} |->
              Let([w \in {face_edges(S1, f)} |->
              Let([S2 \in {SetFaces(S1, Good(w), 1, new_face)} |->
              IF ~Ok(S2) THEN S2
              ELSE IF ~WalkOk(w) THEN Raise(S2, WalkErr(w))
              ELSE Ret(remove_from_mesh(swap_anchors(S2, w, 1), FACE, f), new_face)])])])])

(***************************************************************************)
(* Vertex.snap_to_edge                                                     *)
(***************************************************************************)
NoAngle == -1

\* the walk of a generator that follows next while the loop that consumes
\* it runs: the edge it yields after cur, whose walk has yielded seen;
\* BadWalk when it meets an edge again, NoneWalk when it meets None, and
\* None when it is back at its first edge
NextYield(S, seen, cur) ==
        Let([n \in {S.E[cur].next} |->
        IF n = seen[1] THEN None
        ELSE IF n = None THEN NoneWalk
        ELSE IF \E i \in 2..Len(seen) : S.E[seen[i]].id = S.E[n].id THEN BadWalk
        ELSE n])

\* the edge that snap_to_edge finds for the vertex v on edge, None if it
\* finds none: edge when v is at its start, its next when v is at its end,
\* and the edge made by the split of edge at v when v is on it
snap_edge_try(S, v, edge) ==
         IF v = S.E[edge].start THEN Ret(S, edge)
         ELSE Let([S1 \in {snap_to(S, v, <<S.E[edge].start>>)} |->
              IF ~Ok(S1) THEN S1
         ELSE IF S1.ret # v THEN Ret(S1, edge)
         ELSE IF v = End(S1, edge) THEN Ret(S1, S1.E[edge].next)
         ELSE Let([S2 \in {snap_to(S1, v, <<End(S1, edge)>>)} |->
              IF ~Ok(S2) THEN S2
         ELSE IF S2.ret # v THEN Ret(S2, S2.E[edge].next)
         ELSE Let([closest_point \in {project_point_on_segment(coords(S2, v), normal(S2, edge),
                                          coords(S2, S2.E[edge].start), coords(S2, End(S2, edge)),
                                          TRUE, COORD_EPSILON)} |->
              IF closest_point # NoPoint
                 /\ distance2(coords(S2, v), closest_point) <= COORD_EPSILON * COORD_EPSILON
              THEN split([S2 EXCEPT !.V[v].x = closest_point[1],
                                    !.V[v].y = closest_point[2]], edge, v)
              ELSE Ret(S2, None)])])])

RECURSIVE snap_edge_loop(_, _, _, _, _, _, _)
snap_edge_loop(S, v, vec, es, i, best_edge, min_angle) ==
    IF ~Ok(S) THEN S
    ELSE IF i > Len(es) THEN Ret(S, best_edge)
    ELSE Let([T \in {snap_edge_try(S, v, es[i])} |->
         IF ~Ok(T) THEN T
         ELSE IF T.ret = None THEN snap_edge_loop(T, v, vec, es, i + 1, best_edge, min_angle)
         ELSE IF ~is_internal(T, es[i]) /\ T.E[T.E[es[i]].pair].next = None
         THEN Raise(T, "AttributeError")
         ELSE IF T.V[v].edge = None THEN T
         ELSE Let([a \in {IF vec = NoVector THEN abs_angle(vector(T, T.ret))
                          ELSE ccw_angle(vector(T, T.ret), vec)} |->
              Let([new_angle \in {IF pseudo_equal(a, 360, ANGLE_EPSILON) THEN 0 ELSE a} |->
              IF min_angle = NoAngle \/ min_angle > new_angle
              THEN IF pseudo_equal(new_angle, 0, ANGLE_EPSILON) THEN T
                   ELSE snap_edge_loop(T, v, vec, es, i + 1, T.ret, new_angle)
              ELSE snap_edge_loop(T, v, vec, es, i + 1, best_edge, min_angle)])])])

snap_to_edge(S, v, es) ==
    IF ~Ok(S) THEN S
    ELSE IF v = None THEN Raise(S, "AttributeError")
    ELSE snap_edge_loop(S, v, IF S.V[v].edge # None THEN vector(S, S.V[v].edge) ELSE NoVector,
                        es, 1, None, NoAngle)

(***************************************************************************)
(* Face._insert_face: the snapping loops                                   *)
(***************************************************************************)
\* Face.vertices
face_vertices(S, f) ==
        Let([w \in {Good(face_edges(S, f))} |-> [i \in 1..Len(w) |-> S.E[w[i]].start]])

\* a step of the loop over self.vertices: the edge _edge of the inserted
\* face is split at the start of the edge cur of the container, when that
\* vertex lies on it
touch_step(S, _edge, cur) ==
         Let([_vertex \in {S.E[cur].start} |->
         Let([closest_point \in {project_point_on_segment(coords(S, _vertex), normal(S, _edge),
                                     coords(S, S.E[_edge].start), coords(S, End(S, _edge)),
                                     TRUE, 0)} |->
         IF closest_point # NoPoint
            /\ distance2(coords(S, _vertex), closest_point) <= COORD_EPSILON * COORD_EPSILON
         THEN split(S, _edge, _vertex) ELSE S])])

RECURSIVE touch_loop(_, _, _, _)
touch_loop(S, _edge, seen, cur) ==
    IF ~Ok(S) \/ cur = None THEN S
    ELSE IF cur < 0 THEN Raise(S, WalkErr(<<cur>>))
    ELSE Let([T \in {touch_step(S, _edge, cur)} |->
         IF ~Ok(T) THEN T
         ELSE touch_loop(T, _edge, Append(seen, cur), NextYield(T, Append(seen, cur), cur))])

\* a step of the loop over face.edges: the ends of the edge cur of the
\* inserted face are snapped to the vertices of the container, and the
\* edge is split at them
snap_vertices_step(S, self, cur) ==
         Let([w1 \in {face_edges(S, self)} |->
         Let([S1 \in {IF ~WalkOk(w1) THEN Raise(S, WalkErr(w1))
                      ELSE snap_to(S, S.E[cur].start, face_vertices(S, self))} |->
         IF ~Ok(S1) THEN S1
         ELSE Let([w2 \in {face_edges(S1, self)} |->
              Let([S2 \in {IF ~WalkOk(w2) THEN Raise(S1, WalkErr(w2))
                           ELSE snap_to(S1, End(S1, cur), face_vertices(S1, self))} |->
              IF ~Ok(S2) THEN S2
              ELSE touch_loop(S2, cur, <<>>, S2.F[self].edge)])])])])

RECURSIVE snap_vertices_loop(_, _, _, _)
snap_vertices_loop(S, self, seen, cur) ==
    IF ~Ok(S) \/ cur = None THEN S
    ELSE IF cur < 0 THEN Raise(S, WalkErr(<<cur>>))
    ELSE Let([T \in {snap_vertices_step(S, self, cur)} |->
         IF ~Ok(T) THEN T
         ELSE snap_vertices_loop(T, self, Append(seen, cur),
                                 NextYield(T, Append(seen, cur), cur))])

\* a step of the loop over the edges of the inserted face: the start of
\* edge is snapped to the edges of the container; S.ret is the edge of the
\* container it is on, or None
shared_step(S, edge, self_edges) ==
         Let([vertex \in {S.E[edge].start} |->
         snap_to_edge(SetVertexEdge(S, vertex, edge), vertex, self_edges)])

\* the loop; S.ret is <<shared_edges, self_edges>>
RECURSIVE shared_loop(_, _, _, _, _, _)
shared_loop(S, self, es, i, self_edges, shared_edges) ==
    IF ~Ok(S) THEN S
    ELSE IF i > Len(es) THEN Ret(S, <<shared_edges, self_edges>>)
    ELSE Let([T \in {shared_step(S, es[i], self_edges)} |->
         IF ~Ok(T) THEN T
         ELSE IF T.ret = None THEN shared_loop(T, self, es, i + 1, self_edges, shared_edges)
         ELSE Let([w \in {face_edges(T, self)} |->
              IF ~WalkOk(w) THEN Raise(T, WalkErr(w))
              ELSE shared_loop(T, self, es, i + 1, w,
                               Append(shared_edges, <<T.ret, es[i]>>))])])

(***************************************************************************)
(* Face._insert_identical_face                                             *)
(***************************************************************************)
RECURSIVE add_vertices(_, _, _)
add_vertices(S, vs, i) ==
    IF ~Ok(S) \/ i > Len(vs) THEN S
    ELSE add_vertices(add_to_mesh(S, VERTEX, vs[i], None), vs, i + 1)

_insert_identical_face(S, self, face) ==
        Let([S1 \in {remove_face_and_children(S, face)} |->
        IF ~Ok(S1) THEN S1
        ELSE Let([w \in {face_edges(S1, face)} |->
             Let([S2 \in {add_vertices(S1, face_vertices(S1, face), 1)} |->
             IF ~Ok(S2) THEN S2
             ELSE IF ~WalkOk(w) THEN Raise(S2, WalkErr(w))
             ELSE Ret(swap(S2, self, face), <<>>)])])])

(***************************************************************************)
(* Mesh.directions, Face._insert_enclosed_face                             *)
(***************************************************************************)
DirAngle(S, e) == abs_angle(vector(S, e)) % 180

RECURSIVE DirLength(_, _, _, _)
\* the summed length of the edges es[i..] whose direction is a
DirLength(S, es, i, a) ==
    IF i > Len(es) THEN 0
    ELSE (IF DirAngle(S, es[i]) = a THEN seg_length(vector(S, es[i])) ELSE 0)
         + DirLength(S, es, i + 1, a)

\* the directions of the boundary edges, the one with the greatest summed
\* length first, and among equal lengths the one met first
directions(S) ==
    IF ~Ok(S) THEN S
    ELSE IF S.M.edge = None THEN Raise(S, "ValueError")
    ELSE Let([w \in {siblings(S, S.M.edge)} |->
         IF ~WalkOk(w) THEN Raise(S, WalkErr(w))
         ELSE Let([angles \in {{DirAngle(S, w[i]) : i \in 1..Len(w)}} |->
              Let([first \in {[a \in angles |->
                                CHOOSE i \in 1..Len(w) :
                                    /\ DirAngle(S, w[i]) = a
                                    /\ \A j \in 1..(i - 1) : DirAngle(S, w[j]) # a]} |->
              Let([total \in {[a \in angles |-> DirLength(S, w, 1, a)]} |->
              Let([rank \in {[a \in angles |->
                               1 + Cardinality({b \in angles :
                                      \/ total[b] > total[a]
                                      \/ total[b] = total[a] /\ first[b] < first[a]})]} |->
              Ret(S, [k \in 1..Cardinality(angles) |->
                         CHOOSE a \in angles : rank[a] = k])])])])])])

NoDistance == -1

\* a step of the three nested loops of _insert_enclosed_face, flattened:
\* step j is the vertex (j mod 2) of the pair of edge es[..] along
\* vectors[..]; best, which the step returns, is
\* <<min_distance, best_vertex, best_near_vertex, best_shared_edge>>
nearest_step(S, self, es, vectors, j, best) ==
         Let([edge \in {es[(j \div (2 * Len(vectors))) + 1]} |->
         Let([vec \in {vectors[((j \div 2) % Len(vectors)) + 1]} |->
         Let([pair \in {S.E[edge].pair} |->
         Let([vertex \in {IF j % 2 = 0 THEN S.E[pair].start ELSE End(S, pair)} |->
         Let([angle \in {ccw_angle(normal(S, pair), vec)} |->
         IF ~(angle <= 90 - MIN_ANGLE \/ angle >= 270 + MIN_ANGLE)
            /\ ~(90 + MIN_ANGLE <= angle /\ angle <= 270 - MIN_ANGLE)
         THEN Ret(S, best)
         ELSE Let([_vector \in {IF angle <= 90 - MIN_ANGLE \/ angle >= 270 + MIN_ANGLE
                                THEN vec ELSE opposite_vector(vec)} |->
              Let([S1 \in {project_point(S, vertex, self, _vector)} |->
              IF ~Ok(S1) THEN S1
              ELSE IF S1.ret[1] = None THEN Ret(S1, best)
              ELSE Let([near_vertex \in {S1.ret[1]} |->
                   Let([shared_edge \in {S1.ret[2]} |->
                   Let([projected_angle \in
                          {ccw_angle(vector(S1, shared_edge),
                                     <<S1.V[near_vertex].x - S1.V[vertex].x,
                                       S1.V[near_vertex].y - S1.V[vertex].y>>) % 90} |->
                   IF ~pseudo_equal(projected_angle, 0, ANGLE_EPSILON)
                      /\ ~pseudo_equal(projected_angle, 90, ANGLE_EPSILON)
                   THEN Ret(remove_from_mesh(S1, VERTEX, near_vertex), best)
                   ELSE IF best[1] = NoDistance \/ S1.ret[3] < best[1]
                   THEN Ret(IF best[3] # None
                            THEN remove_from_mesh(S1, VERTEX, best[3]) ELSE S1,
                            <<S1.ret[3], vertex, near_vertex, shared_edge>>)
                   ELSE Ret(remove_from_mesh(S1, VERTEX, near_vertex), best)])])])])])])])])])])

RECURSIVE nearest_loop(_, _, _, _, _, _)
nearest_loop(S, self, es, vectors, j, best) ==
    IF ~Ok(S) THEN S
    ELSE IF j >= Len(es) * Len(vectors) * 2 THEN Ret(S, best)
    ELSE Let([T \in {nearest_step(S, self, es, vectors, j, best)} |->
         nearest_loop(T, self, es, vectors, j + 1, T.ret)])

_insert_enclosed_face(S, self, face) ==
        Let([S0 \in {directions(S)} |->
        IF ~Ok(S0) THEN S0
        ELSE Let([vectors \in {[k \in 1..Len(S0.ret) |-> unit_vector(S0.ret[k])]} |->
        Let([w \in {face_edges(S0, face)} |->
        Let([S1 \in {nearest_loop(S0, self, Good(w), vectors, 0,
                                  <<NoDistance, None, None, None>>)} |->
        IF ~Ok(S1) THEN S1
        ELSE IF ~WalkOk(w) THEN Raise(S1, WalkErr(w))
        ELSE IF S1.ret[1] = NoDistance THEN Raise(S1, "Exception")
        ELSE Let([best_vertex \in {S1.ret[2]} |->
             Let([S2 \in {snap_to_edge(S1, S1.ret[3], <<S1.ret[4]>>)} |->
             IF ~Ok(S2) THEN S2
             ELSE IF S2.ret = None THEN Raise(S2, "AttributeError")
             ELSE Let([edge_shared \in {S2.ret} |->
                  Let([best_near_vertex \in {S2.E[edge_shared].start} |->
                  Let([anchor \in {S2.V[best_vertex].edge} |->
                  IF anchor = None THEN Raise(S2, "AttributeError")
                  ELSE IF previous(S2, anchor) = None THEN Raise(S2, "Exception")
                  ELSE Let([S3 \in {NewEdge(S2, best_near_vertex,
                                            S2.E[previous(S2, anchor)].pair, None, self)} |->
                       Let([new_edge \in {S3.ret} |->
                       Let([S4 \in {Let([T \in {S3} |-> IF Ok(T) THEN (
                              NewEdge(T, best_vertex, edge_shared, new_edge, self)) ELSE T])} |->
                       Let([new_pair \in {S4.ret} |->
                       Let([S5 \in {SetVertexEdge(S4, best_near_vertex, new_edge)} |->
                       Let([S6 \in {Let([T \in {S5} |-> IF Ok(T) THEN (
                              IF previous(T, edge_shared) = None THEN Raise(T, "Exception")
                              ELSE SetNext(T, previous(T, edge_shared), new_edge)) ELSE T])} |->
                       Let([S7 \in {Let([T \in {S6} |-> IF Ok(T) THEN (
                              SetNext(T, T.E[T.V[best_vertex].edge].pair, new_pair)) ELSE T])} |->
                       Ret(S7, <<self>>)])])])])])])])])])])])])])])])])

(***************************************************************************)
(* Face._insert_touching_face                                              *)
(***************************************************************************)
\* MeshComponent.swap_id, of two edges
swap_id(S, a, b) ==
    IF ~Ok(S) THEN S
    ELSE Let([ida \in {S.E[a].id} |->
         Let([idb \in {S.E[b].id} |->
         [S EXCEPT !.E[a].id = idb, !.E[b].id = ida,
                   !.M.edges = Put(Put(@, ida, b), idb, a)]])])

\* the faces fs, the largest first, in the order of fs when areas are equal
SortByArea(S, fs) ==
        Let([rank \in {[i \in 1..Len(fs) |->
                         1 + Cardinality({j \in 1..Len(fs) :
                                \/ area2(S, fs[j]) > area2(S, fs[i])
                                \/ area2(S, fs[j]) = area2(S, fs[i]) /\ j < i})]} |->
        [k \in 1..Len(fs) |-> fs[CHOOSE i \in 1..Len(fs) : rank[i] = k]]])

\* the backward check of the stitching: the two-edged face between
\* previous_edge and previous_touching_edge is removed
stitch_backward(S, previous_edge, previous_touching_edge) ==
        Let([pp \in {S.E[previous_edge].pair} |->
        Let([S1 \in {preserve_references(S, pp, S.E[S.E[pp].next].pair)} |->
        Let([S2 \in {Let([T \in {S1} |-> IF Ok(T) THEN (
               preserve_references(T, T.E[pp].next, previous_edge)) ELSE T])} |->
        Let([S3 \in {Let([T \in {S2} |-> IF Ok(T) THEN (
               preserve_references(T, previous_touching_edge, previous_edge)) ELSE T])} |->
        Let([S4 \in {remove_from_mesh(S3, EDGE, pp)} |->
        Let([S5 \in {Let([T \in {S4} |-> IF Ok(T) THEN (
               SetPair(T, previous_edge, T.E[T.E[pp].next].pair)) ELSE T])} |->
        Let([S6 \in {swap_id(S5, previous_edge, previous_touching_edge)} |->
        remove_from_mesh(S6, EDGE, previous_touching_edge)])])])])])])])

\* the loop of _insert_touching_face over shared_edges; S.ret is all_faces
RECURSIVE stitch_loop(_, _, _, _, _)
stitch_loop(S, self, shared_edges, i, all_faces) ==
    IF ~Ok(S) THEN S
    ELSE IF i > Len(shared_edges) THEN Ret(S, all_faces)
    ELSE Let([touching_edge \in {shared_edges[i][1]} |->
         Let([edge \in {shared_edges[i][2]} |->
         Let([previous_edge \in {previous(S, edge)} |->
         Let([previous_touching_edge \in {previous(S, touching_edge)} |->
         IF previous_edge = None \/ previous_touching_edge = None THEN Raise(S, "Exception")
         ELSE Let([S1 \in {SetNext(S, previous_touching_edge, S.E[previous_edge].pair)} |->
              Let([S2 \in {Let([T \in {S1} |-> IF Ok(T) THEN (
                     SetNext(T, T.E[edge].pair, touching_edge)) ELSE T])} |->
              Let([S3 \in {SetFaceEdge(S2, self, touching_edge)} |->
              IF ~Ok(S3) THEN S3
              ELSE Let([pp \in {S3.E[previous_edge].pair} |->
                   IF S3.E[pp].next = None THEN Raise(S3, "AttributeError")
                   ELSE IF S3.E[S3.E[pp].next].next = pp
                   THEN stitch_loop(stitch_backward(S3, previous_edge, previous_touching_edge),
                                    self, shared_edges, i + 1, all_faces)
                   ELSE Let([w \in {siblings(S3, pp)} |->
                        IF S3.F[self].edge \in Range(Good(w))
                        THEN stitch_loop(S3, self, shared_edges, i + 1, all_faces)
                        ELSE IF ~WalkOk(w) THEN Raise(S3, WalkErr(w))
                        ELSE Let([S4 \in {NewFace(S3, pp)} |->
                             stitch_loop(SetFaces(S4, w, 1, S4.ret), self, shared_edges, i + 1,
                                         Append(all_faces, S4.ret))])])])])])])])])])])

\* the forward check at the end of the stitching
stitch_forward(S, self, touching_edge, edge, all_faces) ==
    IF ~Ok(S) THEN S
    ELSE Let([ep \in {S.E[edge].pair} |->
         IF S.E[ep].next = None THEN Raise(S, "AttributeError")
         ELSE IF S.E[S.E[ep].next].next # ep THEN Ret(S, all_faces)
         ELSE Let([S1 \in {preserve_references(S, touching_edge, edge)} |->
              Let([S2 \in {remove_from_mesh(S1, EDGE, ep)} |->
              Let([S3 \in {Let([T \in {S2} |-> IF Ok(T) THEN (
                     SetPair(T, edge, T.E[touching_edge].pair)) ELSE T])} |->
              Let([S4 \in {swap_id(S3, edge, touching_edge)} |->
              Let([S5 \in {remove_from_mesh(S4, EDGE, touching_edge)} |->
              Let([S6 \in {remove_from_mesh(S5, FACE, self)} |->
              Ret(S6, Tail(all_faces))])])])])])])])

_insert_touching_face(S, self, shared_edges) ==
        Let([S1 \in {stitch_loop(S, self, shared_edges, 1, <<self>>)} |->
        IF ~Ok(S1) THEN S1
        ELSE Let([last_shared \in {shared_edges[Len(shared_edges)]} |->
             Let([S2 \in {stitch_forward(S1, self, last_shared[1], last_shared[2], S1.ret)} |->
             IF ~Ok(S2) THEN S2
             ELSE Ret(S2, SortByArea(S2, S2.ret))])])])

(***************************************************************************)
(* Face._insert_face                                                       *)
(***************************************************************************)
_insert_face(S, self, face) ==
        Let([S0 \in {is_insertable(S, self, face)} |->
        IF ~Ok(S0) THEN S0
        ELSE Let([S1 \in {add_exterior(S0, face, self)} |->
        IF ~Ok(S1) THEN S1
        ELSE Let([w0 \in {face_edges(S1, self)} |->
        IF ~WalkOk(w0) THEN Raise(S1, WalkErr(w0))
        ELSE Let([S2 \in {snap_vertices_loop(S1, self, <<>>, S1.F[face].edge)} |->
        IF ~Ok(S2) THEN S2
        ELSE Let([w2 \in {face_edges(S2, face)} |->
        IF ~WalkOk(w2) THEN Raise(S2, WalkErr(w2))
        ELSE Let([S3 \in {shared_loop(S2, self, w2, 1, w0, <<>>)} |->
        IF ~Ok(S3) THEN S3
        ELSE Let([shared_edges \in {S3.ret[1]} |->
             Let([self_edges \in {S3.ret[2]} |->
             IF Len(shared_edges) = 0 THEN _insert_enclosed_face(S3, self, face)
             ELSE IF Len(shared_edges) = Len(self_edges)
             THEN _insert_identical_face(S3, self, face)
             ELSE _insert_touching_face(S3, self, shared_edges)])])])])])])])])

(***************************************************************************)
(* Face.insert_face, Face.insert_face_from_boundary                        *)
(***************************************************************************)
\* the INSERT records of the faces created, other than the receiving face
RECURSIVE store_created(_, _, _, _)
store_created(S, self, created_faces, i) ==
    IF ~Ok(S) \/ i > Len(created_faces) THEN S
    ELSE IF created_faces[i] = self THEN store_created(S, self, created_faces, i + 1)
    ELSE store_created(store_modification(S, INSERT, FACE, created_faces[i], FACE, self),
                       self, created_faces, i + 1)

\* insert_face that does not log the inserted face
insert_face_Unlogged(S, self, face) ==
        Let([S0 \in {is_insertable(S, self, face)} |->
        IF ~Ok(S0) THEN S0
        ELSE Let([w \in {face_edges(S0, self)} |->
             Let([internal_edges \in {{e \in Range(w) : S0.E[S0.E[e].pair].face = self}} |->
             IF \E e \in internal_edges : intersects_eroded(S0, e, face)
             THEN Raise(S0, "OverInternalEdge")
             ELSE Let([S1 \in {_insert_face(S0, self, face)} |->
                  IF ~Ok(S1) THEN S1
                  ELSE Let([created_faces \in {S1.ret} |->
                       Let([S2 \in {S1} |->
                       Let([S3 \in {store_created(S2, self, created_faces, 1)} |->
                       Let([S4 \in {IF Ok(S3) /\ self \notin Range(created_faces)
                                    THEN store_modification(S3, REMOVE, FACE, self, "", None)
                                    ELSE S3} |->
                       Ret(S4, created_faces)])])])])])])])])

\* The insertion of a face that lies over an internal edge of the receiving
\* face (_insert_face_over_internal_edge) is outside the domain of the
\* model: such a call ends with OverInternalEdge, and no operation of the
\* model makes one.
insert_face(S, self, face) ==
        Let([S0 \in {is_insertable(S, self, face)} |->
        IF ~Ok(S0) THEN S0
        ELSE Let([w \in {face_edges(S0, self)} |->
             Let([internal_edges \in {{e \in Range(w) : S0.E[S0.E[e].pair].face = self}} |->
             IF \E e \in internal_edges : intersects_eroded(S0, e, face)
             THEN Raise(S0, "OverInternalEdge")
             ELSE Let([S1 \in {_insert_face(S0, self, face)} |->
                  IF ~Ok(S1) THEN S1
                  ELSE Let([created_faces \in {S1.ret} |->
                       Let([S2 \in {store_modification(S1, INSERT, FACE, face, FACE, self)} |->
                       Let([S3 \in {store_created(S2, self, created_faces, 1)} |->
                       Let([S4 \in {IF Ok(S3) /\ self \notin Range(created_faces)
                                    THEN store_modification(S3, REMOVE, FACE, self, "", None)
                                    ELSE S3} |->
                       Ret(S4, created_faces)])])])])])])])])

insert_face_from_boundary(S, self, perimeter) ==
        Let([S1 \in {new_face_from_boundary(S, perimeter)} |->
        IF ~Ok(S1) THEN S1
        ELSE Let([face_to_insert \in {S1.ret} |->
             Let([S2 \in {insert_face(S1, self, face_to_insert)} |->
             IF S2.err = "OutsideFaceError"
             THEN Raise(remove_face_and_children([S2 EXCEPT !.err = "none"], face_to_insert),
                        "OutsideFaceError")
             ELSE S2])])])

(***************************************************************************)
(* Face.siblings, Mesh.connected                                           *)
(***************************************************************************)
\* no min_adjacency_length given
NoMin == NoMax

\* faces are compared by id
InFaces(S, f, fs) == \E k \in 1..Len(fs) : S.F[fs[k]].id = S.F[f].id

\* the loop of Face.siblings over the edges w of the face: [seen, err], the
\* faces yielded and the exception that ends the generator, if any
RECURSIVE face_siblings_loop(_, _, _, _, _)
face_siblings_loop(S, w, i, min, seen) ==
    IF i > Len(w) THEN [seen |-> seen, err |-> "none"]
    ELSE IF S.E[w[i]].pair = None THEN [seen |-> seen, err |-> "AttributeError"]
    ELSE Let([pair_face \in {S.E[S.E[w[i]].pair].face} |->
         IF /\ pair_face # None
            /\ ~InFaces(S, pair_face, seen)
            /\ (min = NoMin \/ length2(S, w[i]) >= min * min)
         THEN face_siblings_loop(S, w, i + 1, min, Append(seen, pair_face))
         ELSE face_siblings_loop(S, w, i + 1, min, seen)])

face_siblings(S, f, min) ==
    Let([w \in {face_edges(S, f)} |->
    Let([r \in {face_siblings_loop(S, Good(w), 1, min, <<f>>)} |->
    IF r.err = "none" /\ ~WalkOk(w) THEN [seen |-> r.seen, err |-> WalkErr(w)] ELSE r])])

\* connected that takes the first face for the parent of every face it reaches
RECURSIVE connected_loop_Flat(_, _, _, _, _)
connected_loop_Flat(S, fs, parent, current, min) ==
    IF current = None
    THEN Ret(S, Cardinality(DOMAIN parent) = Cardinality({S.F[fs[k]].id : k \in 1..Len(fs)}))
    ELSE Let([r \in {face_siblings(S, current, min)} |->
         Let([found \in {SelectSeq(r.seen, LAMBDA f : /\ f # current
                                                      /\ InFaces(S, f, fs)
                                                      /\ S.F[f].id \notin DOMAIN parent)} |->
         IF found # <<>>
         THEN connected_loop_Flat(S, fs, Put(parent, S.F[found[1]].id, current), current, min)
         ELSE IF r.err # "none" THEN Raise(S, r.err)
         ELSE connected_loop_Flat(S, fs, parent, parent[S.F[current].id], min)])])

\* the loop of connected: parent maps the id of a face to the face it was
\* reached from; the siblings of current are read until one is found that is
\* another object than current, is one of the faces and has no parent yet
RECURSIVE connected_loop(_, _, _, _, _)
connected_loop(S, fs, parent, current, min) ==
    IF current = None
    THEN Ret(S, Cardinality(DOMAIN parent) = Cardinality({S.F[fs[k]].id : k \in 1..Len(fs)}))
    ELSE Let([r \in {face_siblings(S, current, min)} |->
         Let([found \in {SelectSeq(r.seen, LAMBDA f : /\ f # current
                                                      /\ InFaces(S, f, fs)
                                                      /\ S.F[f].id \notin DOMAIN parent)} |->
         IF found # <<>>
         THEN connected_loop(S, fs, Put(parent, S.F[found[1]].id, current), found[1], min)
         ELSE IF r.err # "none" THEN Raise(S, r.err)
         ELSE connected_loop(S, fs, parent, parent[S.F[current].id], min)])])

\* Mesh.connected(faces, min_adjacency_length)
connected(S, fs, min) ==
    IF ~Ok(S) THEN S
    ELSE IF fs = <<>> THEN Ret(S, TRUE)
    ELSE connected_loop(S, fs, Put(<<>>, S.F[fs[1]].id, None), fs[1], min)
(***************************************************************************)
(* Inputs of the operations                                                *)
(***************************************************************************)
\* the points a caller creates a vertex at: two points within COORD_EPSILON
\* of a corner, the middle of a side and the centre
Half == Side \div 2
Points == {<<1, 0>>, <<0, 1>>, <<Half, 0>>, <<Half, Half>>}
\* max_length of a cut, when one is given
ShortLength == 5
\* the callables a caller registers with add_watcher
Watchers == {"w1", "w2"}
\* the number of calls the watchers receive in a run
MaxHeard == 4

MeshVertices == {mesh.vertices[i] : i \in DOMAIN mesh.vertices}
MeshEdges == {mesh.edges[i] : i \in DOMAIN mesh.edges}
\* the edges that run along a face: the ones a caller splits or cuts
FaceEdges == {e \in MeshEdges : edges[e].face # None}
MeshFaces == {mesh.faces[i] : i \in DOMAIN mesh.faces}

EdgeHolds(e, p) ==
    OnSegment(p, coords(St, edges[e].start), coords(St, End(St, e)))

Vectors == {<<1, 0>>, <<0, 1>>}

\* every edge of the mesh is axis-parallel
Rectilinear(S) ==
    \A i \in DOMAIN S.M.edges :
            Let([e \in {S.M.edges[i]} |->
            S.E[e].next # None /\ S.E[e].start # None =>
               Let([v \in {vector(S, e)} |->
                                               v[1] = 0 \/ v[2] = 0])])

\* the objects the mesh still refers to, directly or not: the others are
\* garbage once the operation has returned
RECURSIVE Reach(_, _)
Reach(S, R) ==
        Let([ev \in {{S.V[v].edge : v \in R.v}} |->
        Let([ef \in {{S.F[f].edge : f \in R.f}} |->
        Let([en \in {{S.E[e].next : e \in R.e} \cup {S.E[e].pair : e \in R.e}} |->
        Let([R2 \in {[v |-> (R.v \cup {S.E[e].start : e \in R.e}) \ {None},
         e |-> (R.e \cup ev \cup ef \cup en) \ {None},
         f |-> (R.f \cup {S.E[e].face : e \in R.e}) \ {None}]} |->
        IF R2 = R THEN R ELSE Reach(S, R2)])])])])

Roots(S) ==
    [v |-> {S.M.vertices[i] : i \in DOMAIN S.M.vertices},
     e |-> {S.M.edges[i] : i \in DOMAIN S.M.edges} \cup ({S.M.edge} \ {None}),
     f |-> {S.M.faces[i] : i \in DOMAIN S.M.faces}]

\* a second Mesh of the program, and the value serialize gave for it when the
\* program last had it in hand; NoMesh while there is one mesh only
NoMesh == <<>>

\* the objects the program holds: those of the mesh it works on and those of
\* the second mesh
Kept(S) ==
    IF twin = NoMesh THEN Roots(S)
    ELSE Let([O \in {Roots([S EXCEPT !.M = twin.M])} |->
         [v |-> Roots(S).v \cup O.v, e |-> Roots(S).e \cup O.e, f |-> Roots(S).f \cup O.f]])

\* an exception nobody catches ends the program: no operation follows it
Running == last.err = "none"

\* the operation that made S of the mesh is the next one of a run of at most
\* bound operations
CommitWithin(bound, S, op, ret) ==
    /\ Running
    /\ steps < bound
    /\ steps' = steps + 1
    /\ Rectilinear(S)
    /\ (\E R \in {Reach(S, Kept(S))} :
           /\ vertices' = [v \in R.v |-> S.V[v]]
           /\ edges' = [e \in R.e |-> S.E[e]]
           /\ faces' = [f \in R.f |-> S.F[f]])
    /\ mesh' = S.M
    /\ heard' = S.W
    /\ last' = [op |-> op, err |-> S.err, ret |-> IF Ok(S) THEN ret ELSE <<>>]
    /\ twin' = twin

Commit(S, op, ret) == CommitWithin(MaxSteps, S, op, ret)

(***************************************************************************)
(* Operations                                                              *)
(***************************************************************************)
\* The vertex given to edge.split and edge.cut is a vertex of the edge, or
\* Vertex(mesh, x, y) that the caller creates at a point of the edge.  A
\* call is the mesh S0 it is made on, the edge e and the vertex v.
OnEdge(e) ==
    {[S0 |-> St, e |-> e, v |-> v] : v \in {edges[e].start, End(St, e)}}
    \cup {[S0 |-> NewVertex(St, p[1], p[2], TRUE), e |-> e, v |-> Fresh(St)] :
             p \in {q \in Points : EdgeHolds(e, q)}}

SplitCalls == UNION {OnEdge(e) : e \in FaceEdges}

SplitOf(c) == split(c.S0, c.e, c.v)

Split ==
    /\ Running
    /\ \E c \in SplitCalls :
           (\E S \in {SplitOf(c)} :
               Commit(S, "split", <<S.ret>>))

Link ==
    /\ Running
    /\ \E e, other \in MeshEdges :
           /\ edges[e].face # None
           /\ \E k \in 1..2 : coords(St, End(St, e))[k] = coords(St, End(St, other))[k]
           /\ (\E S \in {link(St, e, other)} :
                  Commit(S, "link", <<S.ret>>))

\* (vector, max_length) of a cut; the angle is 90
CutArgs == ((Vectors \cup {NoVector}) \X {NoMax}) \cup {<<NoVector, ShortLength>>}

CutCalls ==
    UNION {{[S0 |-> c.S0, e |-> c.e, v |-> c.v, vector |-> a[1], max_length |-> a[2]] :
              c \in OnEdge(e), a \in CutArgs} : e \in MeshEdges}

CutOf(c) == cut(c.S0, c.e, c.v, 90, c.vector, c.max_length)

Cut ==
    /\ Running
    /\ \E c \in CutCalls :
           (\E S \in {CutOf(c)} :
               Commit(S, "cut", S.ret))

\* the ways recursive_cut goes on: along the first direction, along the
\* angle from each edge it reaches, or not at all
Traverses == {"absolute", "relative", "no"}

\* no callback, one that stops the cut at once, one that stops it after the
\* second cut
Callbacks == {NoCallback, <<TRUE>>, <<FALSE, TRUE>>}

RecursiveCalls ==
    {[S0 |-> c.S0, e |-> c.e, v |-> c.v, vector |-> c.vector, max_length |-> c.max_length,
      traverse |-> t] : c \in CutCalls, t \in Traverses}

RecursiveOf(c, callback) ==
    recursive_cut(c.S0, c.e, c.v, 90, c.traverse, c.vector, c.max_length, callback)

RecursiveCut ==
    /\ Running
    /\ \E c \in RecursiveCalls, callback \in Callbacks :
           (\E S \in {RecursiveOf(c, callback)} :
               Commit(S, "recursive_cut", S.ret))

Remove ==
    /\ Running
    /\ \E e \in MeshEdges :
           (\E S \in {remove(St, e, TRUE)} :
               Commit(S, "remove", <<S.ret>>))

Collapse ==
    /\ Running
    /\ \E e \in MeshEdges :
           /\ length2(St, e) <= COORD_EPSILON * COORD_EPSILON
           /\ (\E S \in {collapse(St, e)} :
                  Commit(S, "collapse", <<>>))

VertexClean ==
    /\ Running
    /\ \E v \in MeshVertices :
           (\E S \in {vertex_clean(St, v)} :
               Commit(S, "vertex_clean", S.ret))

FaceClean ==
    /\ Running
    /\ \E f \in MeshFaces :
           (\E S \in {face_clean(St, f)} :
               Commit(S, "face_clean", <<S.ret>>))

Merge ==
    /\ Running
    /\ \E f, other \in MeshFaces :
           (\E S \in {merge(St, f, other)} :
               Commit(S, "merge", <<S.ret>>))

\* vertex.snap_to(other), other being the vertex next to it
SnapTo ==
    /\ Running
    /\ \E v \in MeshVertices :
           /\ vertices[v].edge # None
           /\ (\E S \in {snap_to(St, v, <<End(St, vertices[v].edge)>>)} :
                  Commit(S, "snap_to", <<S.ret>>))

\* the mesh is written with serialize and read again, in a new Mesh, with
\* deserialize
Reload ==
    /\ Running
    /\ (\E S1 \in {serialize(St)} :
       (\E S \in {IF Ok(S1) THEN [deserialize(S1.ret) EXCEPT !.W = S1.W] ELSE S1} :
           Commit(S, "deserialize", <<>>)))

\* mesh.add_watcher(w)
AddWatcher ==
    \E w \in Watchers :
        /\ Running
        /\ (\E S \in {add_watcher(St, w)} :
               /\ mesh' = S.M
               /\ last' = [op |-> "add_watcher", err |-> S.err, ret |-> <<>>])
        /\ UNCHANGED <<vertices, edges, faces, heard, steps, twin>>

\* mesh.watch()
Watch ==
    /\ Running
    /\ Len(heard) < MaxHeard
    /\ (\E S \in {watch(St)} :
           /\ mesh' = S.M
           /\ heard' = S.W
           /\ last' = [op |-> "watch", err |-> S.err, ret |-> <<>>])
    /\ UNCHANGED <<vertices, edges, faces, steps, twin>>

\* the perimeters a caller inserts: the whole square, a rectangle strictly
\* inside it, and rectangles in a corner and along sides of it
Rect(x0, y0, x1, y1) == << <<x0, y0>>, <<x1, y0>>, <<x1, y1>>, <<x0, y1>> >>
Quarter == Side \div 4
Perimeters ==
    {Rect(0, 0, Side, Side), Rect(Quarter, Quarter, Side - Quarter, Side - Quarter),
     Rect(0, 0, Half, Half), Rect(0, 0, Half, Quarter), Rect(0, 0, Half, Side)}

\* face.insert_face_from_boundary(perimeter), with one of Perimeters
InsertFace ==
    /\ Running
    /\ \E f \in MeshFaces :
       \E p \in Perimeters :
           (\E S \in {insert_face_from_boundary(St, f, p)} :
               /\ S.err # "OverInternalEdge"
               /\ Commit(S, "insert", S.ret))

\* face.insert_face_from_boundary(face.coords): the perimeter is the one of
\* the face itself; a run may end with one such call more
InsertSame ==
    /\ Running
    /\ \E f \in MeshFaces :
           (\E S \in {insert_face_from_boundary(St, f, face_coords(St, f))} :
               /\ S.err # "OverInternalEdge"
               /\ CommitWithin(MaxSteps + 1, S, "insert", S.ret))

\* face.simplify(), face.recursive_simplify() and mesh.simplify()
FaceSimplify ==
    /\ Running
    /\ \E f \in MeshFaces :
           (\E S \in {simplify(St, f)} :
               Commit(S, "simplify", S.ret))

RecursiveSimplify ==
    /\ Running
    /\ \E f \in MeshFaces :
           (\E S \in {recursive_simplify(St, f)} :
               Commit(S, "recursive_simplify", S.ret))

MeshSimplify ==
    /\ Running
    /\ (\E S \in {mesh_simplify(St)} :
           Commit(S, "mesh_simplify", S.ret))

\* edge.barycenter_cut(coeff), for the coefficients 0, 1/2 and 1
BarycenterCut ==
    /\ Running
    /\ \E e \in FaceEdges : \E coeff2 \in 0..2 :
           (\E S \in {barycenter_cut(St, e, coeff2)} :
               Commit(S, "barycenter_cut", S.ret))

\* boundaries that are no boundary of a face: a clockwise square, a boundary
\* that turns counter-clockwise and crosses itself, and two points
Clockwise == << <<0, 0>>, <<0, Half>>, <<Half, Half>>, <<Half, 0>> >>
Crossed == << <<0, 2>>, <<6, 2>>, <<6, 10>>, <<4, 0>> >>
TwoPoints == << <<0, 0>>, <<Side, 0>> >>
Refused == {Clockwise, Crossed, TwoPoints}

\* mesh.new_face_from_boundary(boundary), with a boundary that is refused or
\* with a rectangle
NewFaceFrom ==
    /\ Running
    /\ \E p \in Refused \cup {Rect(Quarter, Quarter, Half, Half)} :
           (\E S \in {new_face_from_boundary(St, p)} :
               Commit(S, "new_face", <<S.ret>>))

\* the objects of a second Mesh() are kept apart from the objects of the first
Offset == 1000
\* a second Mesh() whose objects are the objects of the first
NewMesh_Same == EmptyMesh
NewMesh == [EmptyMesh EXCEPT !.base = Offset]

\* copy = Mesh().deserialize(mesh.serialize()), which is also what
\* pickle.loads(pickle.dumps(mesh)) does through __getstate__ and
\* __setstate__: the program then holds two meshes
Fork ==
    /\ Running
    /\ twin = NoMesh
    /\ (\E S1 \in {serialize(St)} :
       (\E S \in {IF Ok(S1) THEN deserialize_into([S1 EXCEPT !.M = NewMesh], S1.ret) ELSE S1} :
           /\ vertices' = S.V
           /\ edges' = S.E
           /\ faces' = S.F
           /\ heard' = S.W
           /\ twin' = IF Ok(S) THEN [M |-> S.M, kept |-> S1.ret] ELSE twin
           /\ last' = [op |-> "fork", err |-> S.err, ret |-> <<>>]))
    /\ UNCHANGED <<mesh, steps>>

\* the program turns to the other of its two meshes: the operations that
\* follow are applied to it
Exchange ==
    /\ Running
    /\ twin # NoMesh
    /\ (\E S1 \in {serialize(St)} :
           /\ Ok(S1)
           /\ twin' = [M |-> mesh, kept |-> S1.ret]
           /\ mesh' = twin.M
           /\ last' = [op |-> "exchange", err |-> "none", ret |-> <<>>])
    /\ UNCHANGED <<vertices, edges, faces, heard, steps>>

\* the boundaries a mesh is built from
Square == << <<0, 0>>, <<Side, 0>>, <<Side, Side>>, <<0, Side>> >>

\* the same square with two more vertices on its top side: in the middle,
\* and COORD_EPSILON away from a corner
Notched ==
    << <<0, 0>>, <<Side, 0>>, <<Side, Side>>, <<Half, Side>>, <<1, Side>>, <<0, Side>> >>

\* the same square with one more vertex on its bottom side, COORD_EPSILON
\* away from the first corner: the first edge, whose pair becomes the
\* boundary edge, is short enough to be collapsed
Stepped == << <<0, 0>>, <<1, 0>>, <<Side, 0>>, <<Side, Side>>, <<0, Side>> >>

Boundaries == {Square, Notched, Stepped}

\* the lists of faces a caller gives to connected: at most MaxFaces faces of
\* the mesh, in any order, a face possibly more than once
MaxFaces == 3
FaceLists == UNION {[1..n -> MeshFaces] : n \in 0..MaxFaces}

\* Mesh.connected(faces, min_adjacency_length): the mesh is left as it is;
\* the question ends the run
Connected ==
    /\ Running
    /\ steps <= MaxSteps
    /\ \E fs \in FaceLists, min \in {NoMin, ShortLength} :
           (\E S \in {connected(St, fs, min)} :
               last' = [op |-> "connected", err |-> S.err,
                        ret |-> IF Ok(S) THEN <<S.ret>> ELSE <<>>])
    /\ steps' = MaxSteps + 1
    /\ UNCHANGED <<vertices, edges, faces, mesh, heard, twin>>

C2_FaceCycle ==
    \A e \in MeshEdges :
        edges[e].face # None =>
            LET f == edges[e].face
                w == face_edges(St, f)
            IN  /\ WalkOk(w)
                /\ \E i \in 1..Len(w) : w[i] = e
                /\ \A i \in 1..Len(w) : edges[w[i]].face = f

\* a link has just cut a face in two
C2_Witness ==
    /\ last.op = "link"
    /\ last.err = "none"
    /\ last.ret # <<None>>
    /\ Cardinality(MeshFaces) = 2

\* C9: after any mutation, every face of the mesh has an anchor edge that
\* is in the mesh and whose face is that face
C9_FaceAnchor ==
    \A f \in MeshFaces :
        LET a == faces[f].edge
        IN  /\ a # None
            /\ a \in MeshEdges
            /\ edges[a].face = f

\* two faces have just been merged into one, which is returned
C9_Witness ==
    /\ last.op = "merge"
    /\ last.err = "none"
    /\ steps = 2
    /\ last.ret # <<None>>
    /\ MeshFaces = {last.ret[1]}

EdgesOf(S) == {S.M.edges[i] : i \in DOMAIN S.M.edges}
FacesOf(S) == {S.M.faces[i] : i \in DOMAIN S.M.faces}
VerticesOf(S) == {S.M.vertices[i] : i \in DOMAIN S.M.vertices}

\* what the mesh holds: its edges with their start, next, pair and face, its
\* faces with their anchor, and its vertices that an edge is attached to
Topology(S) ==
    [e |-> [i \in DOMAIN S.M.edges |->
              LET o == S.M.edges[i]
              IN  <<S.E[o].start, S.E[o].next, S.E[o].pair, S.E[o].face>>],
     f |-> [i \in DOMAIN S.M.faces |-> S.F[S.M.faces[i]].edge],
     v |-> {<<i, coords(S, S.M.vertices[i])>> :
              i \in {k \in DOMAIN S.M.vertices : S.V[S.M.vertices[k]].edge # None}}]

\* C4: a cut that returns None leaves the mesh as it was before the call:
\* the same vertices, edges and faces and the same start, next, pair and
\* face links
C4_CutNoneLeavesMesh ==
    Running =>
        \A c \in CutCalls :
            LET S == CutOf(c)
            IN  Ok(S) /\ S.ret = NoCut => Topology(S) = Topology(c.S0)

\* the edges that the cut added between the starts of the two edges it
\* returned
Joining(S0, S) ==
    {n \in EdgesOf(S) \ EdgesOf(S0) :
        /\ S.E[n].pair # None
        /\ S.E[n].start = S.E[S.ret[1]].start
        /\ S.E[S.E[n].pair].start = S.E[S.ret[2]].start}

\* the edges of face f whose pair runs along face g
Shared(S, f, g) ==
    {x \in EdgesOf(S) : S.E[x].face = f /\ S.E[x].pair # None /\ S.E[S.E[x].pair].face = g}

\* what cut c has done when it returned the triple S.ret: one face and one
\* edge pair more, between the cut vertex and the intersection vertex, which
\* the face of the edge and the new face share
CutDone(c, S) ==
    /\ S.ret[3] # None
    /\ FacesOf(S) = FacesOf(c.S0) \cup {S.ret[3]}
    /\ S.ret[3] \notin FacesOf(c.S0)
    /\ is_close(c.S0, S.E[S.ret[1]].start, c.v)
    /\ Cardinality(Joining(c.S0, S)) = 1
    /\ \A n \in Joining(c.S0, S) :
         /\ S.E[n].pair \in EdgesOf(S) \ EdgesOf(c.S0)
         /\ Shared(S, c.S0.E[c.e].face, S.ret[3]) = {n}
         /\ Shared(S, S.ret[3], c.S0.E[c.e].face) = {S.E[n].pair}

\* cutting an edge of the single face of the square at its middle, at 90
\* degrees, gives two faces
SquareCut ==
    steps = 0 /\ Cardinality(MeshVertices) = 4 =>
        \A c \in CutCalls :
            /\ coords(c.S0, c.v) = <<Half, 0>>
            /\ edges[c.e].face # None
            /\ c.vector = NoVector /\ c.max_length = NoMax
            => LET S == CutOf(c)
               IN  Ok(S) /\ S.ret # NoCut /\ Cardinality(FacesOf(S)) = 2

Counts(S) ==
    <<Cardinality(FacesOf(S)), Cardinality(EdgesOf(S)), Cardinality(VerticesOf(S))>>

\* the edge that a cut which returned a face created
Created(c, S) == CHOOSE n \in Joining(c.S0, S) : TRUE

Straight(S, u) ==
    LET T == vertex_clean(S, u)
    IN  Ok(T) /\ u \notin VerticesOf(T)

\* the ends of edge n that were in the mesh before the cut, between two
\* aligned edges
StraightEnds(S, n) ==
    {u \in {S.E[n].start, S.E[S.E[n].pair].start} \cap MeshVertices : Straight(St, u)}

\* no two vertices of the mesh are at the same point
DistinctVertices ==
    \A u, v \in MeshVertices : u # v => coords(St, u) # coords(St, v)

Coincides(S, v, w) == v = w \/ is_close(S, v, w)

IdOrNone(f, o) == IF o = None THEN None ELSE f[o].id

\* the ids and coordinates of the vertices of a mesh, the ids of its edges
\* with the ids of their start, next, pair and face, the ids of its faces
\* and the id of its boundary edge
Identity(V, E, F, M) ==
    [vertices |-> [i \in DOMAIN M.vertices |-> <<V[M.vertices[i]].x, V[M.vertices[i]].y>>],
     edges |-> [i \in DOMAIN M.edges |->
                  LET e == E[M.edges[i]]
                  IN  <<IdOrNone(V, e.start), IdOrNone(E, e.next), IdOrNone(E, e.pair),
                        IdOrNone(F, e.face)>>],
     faces |-> DOMAIN M.faces,
     edge |-> IdOrNone(E, M.edge)]

\* C8: deserialize(serialize(mesh)) gives a mesh with the same vertex ids
\* and coordinates, the same edge ids with the same start, next, pair and
\* face ids, the same face ids and the same boundary edge id
C8_RoundTrip ==
    [][last'.op = "deserialize" =>
          /\ last'.err = "none"
          /\ Identity(vertices', edges', faces', mesh') =
             Identity(vertices, edges, faces, mesh)]_vars

\* a mesh that a cut gave a second face has just been read again
C8_Witness ==
    /\ last.op = "deserialize"
    /\ last.err = "none"
    /\ steps = 2
    /\ Cardinality(MeshFaces) = 2
C12_BoundaryEdge ==
    /\ mesh.edge \in MeshEdges
    /\ edges[mesh.edge].face = None
    /\ \A e \in MeshEdges :
          edges[e].face # None =>
              LET S == SetBoundaryEdge(St, e)
              IN  S.err = "ValueError" /\ S.M.edge = mesh.edge

\* the edge that was the boundary edge has just been removed by a collapse,
\* and the boundary edge is now one of its siblings
C12_Witness ==
    /\ last.op = "collapse"
    /\ last.err = "none"
    /\ mesh.edge # 6
    /\ 6 \notin MeshEdges
    /\ \E e \in MeshEdges : edges[e].face # None

(***************************************************************************)
(* Edge.link                                                               *)
(***************************************************************************)
\* the edges met by following next from edge x
Cycle(S, x) == {siblings(S, x)[i] : i \in 1..Len(siblings(S, x))}

\* e1 and e2 run along the same face, neither is the next of the other, and
\* they end at different vertices
Linkable(e1, e2) ==
    /\ edges[e1].face # None
    /\ edges[e1].face = edges[e2].face
    /\ edges[e2].next # e1 /\ edges[e1].next # e2
    /\ End(St, e1) # End(St, e2)

\* what e1.link(e2) has done when it returned the face S.ret
LinkDone(e1, e2, S) ==
    LET f == edges[e1].face
        g == S.ret
        new == EdgesOf(S) \ MeshEdges
        old == {x \in MeshEdges : edges[x].face = f}
    IN  /\ g \notin MeshFaces
        /\ FacesOf(S) = MeshFaces \cup {g}
        /\ VerticesOf(S) = MeshVertices
        /\ MeshEdges \subseteq EdgesOf(S)
        /\ Cardinality(new) = 2
        /\ \E n \in new :
              /\ new = {n, S.E[n].pair}
              /\ S.E[S.E[n].pair].pair = n
              /\ S.E[n].start = End(St, e1)
              /\ S.E[S.E[n].pair].start = End(St, e2)
        /\ S.F[f].edge = e1
        /\ e1 \in Cycle(S, S.F[f].edge)
        /\ e2 \in Cycle(S, S.F[g].edge)
        /\ \A x \in old : (x \in Cycle(S, e1)) # (x \in Cycle(S, e2))
        /\ Cycle(S, e1) \cup Cycle(S, e2) = old \cup new
        /\ \A x \in EdgesOf(S) :
              S.E[x].face # None =>
                  /\ WalkOk(face_edges(S, S.E[x].face))
                  /\ x \in Cycle(S, S.F[S.E[x].face].edge)
                  /\ \A y \in Cycle(S, x) : S.E[y].face = S.E[x].face

\* C13: whenever e1.link(e2) succeeds, that is returns a face, the two edges
\* were on the same face, neither was the next of the other and their end
\* vertices differed, and link has added exactly one edge pair, from e1.end
\* to e2.end, and that face: the edges of the original cycle are divided
\* between the original face, which keeps e1 and has e1 as anchor, and the
\* new face, which holds e2, and every edge with a face lies on the cycle of
\* that face
C13_LinkSplitsFace ==
    Running =>
        \A e1, e2 \in MeshEdges :
            LET S == link(St, e1, e2)
            IN  Ok(S) /\ S.ret # None =>
                    Linkable(e1, e2) /\ LinkDone(e1, e2, S)

\* a second link has made a third face
C13_Witness ==
    /\ last.op = "link"
    /\ last.err = "none"
    /\ steps = 2
    /\ last.ret[1] \in MeshFaces
    /\ Cardinality(MeshFaces) = 3

\* the mesh of S is the mesh of the current state
Untouched(S) ==
    S.V = vertices /\ S.E = edges /\ S.F = faces /\ S.M = mesh /\ S.W = heard

\* C14: e1.link(e2) raises an error and leaves the mesh unchanged when
\* e1.face is not e2.face; on two edges of the same face it returns None and
\* leaves the mesh unchanged when e2.next is e1, e1.next is e2, or e1.end is
\* e2.end
C14_LinkRefuses ==
    Running =>
        \A e1, e2 \in MeshEdges :
            LET S == link(St, e1, e2)
            IN  /\ edges[e1].face # edges[e2].face =>
                      S.err = "ValueError" /\ Untouched(S)
                /\ /\ edges[e1].face = edges[e2].face
                   /\ \/ edges[e2].next = e1
                      \/ edges[e1].next = e2
                      \/ End(St, e1) = End(St, e2)
                   => Ok(S) /\ S.ret = None /\ Untouched(S)

\* a link of two edges that follow each other has just returned None
C14_Witness ==
    /\ last.op = "link"
    /\ last.err = "none"
    /\ last.ret = <<None>>
    /\ steps = 2

(***************************************************************************)
(* Mesh.add_watcher, Mesh.watch, Mesh.store_modification                   *)
(***************************************************************************)
\* the calls that the watchers of the mesh receive from one watch(): one
\* for each registered watcher, with the pending modifications
Notification ==
    [i \in 1..Len(mesh.watchers) |-> Call(mesh.watchers[i], mesh.modifications)]

\* C17: watch() calls every registered watcher exactly once with the
\* modifications accumulated since the previous watch(), which hold one
\* record for each component id, and leaves the pending log empty: no
\* record is given to the same watcher in two notifications
C17_WatchDelivers ==
    /\ \A i, j \in 1..Len(mesh.watchers) :
          mesh.watchers[i] = mesh.watchers[j] => i = j
    /\ \A k \in DOMAIN mesh.modifications : mesh.modifications[k].id = k
    /\ Running =>
          LET S == watch(St)
          IN  /\ Ok(S)
              /\ S.W = heard \o Notification
              /\ S.M.modifications = <<>>
              /\ \A w \in Watchers :
                    Cardinality({i \in 1..Len(S.W) : S.W[i].watcher = w})
                      = Cardinality({i \in 1..Len(heard) : heard[i].watcher = w})
                        + (IF w \in Range(mesh.watchers) THEN 1 ELSE 0)
    /\ \A i, j \in 1..Len(heard) :
          i < j /\ heard[i].watcher = heard[j].watcher =>
              \A k \in DOMAIN heard[i].modifications \cap DOMAIN heard[j].modifications :
                  heard[i].modifications[k] # heard[j].modifications[k]

\* two watchers have each been called twice, by two calls of watch() that
\* had modifications to deliver
C17_Witness ==
    /\ last.op = "watch"
    /\ Len(mesh.watchers) = 2
    /\ Len(heard) = 4
    /\ heard[1].modifications # <<>>
    /\ heard[3].modifications # <<>>
    /\ heard[1].modifications = heard[2].modifications
    /\ heard[3].modifications = heard[4].modifications
    /\ mesh.modifications = <<>>

\* the components of the mesh, each with its type
Components ==
    ({VERTEX} \X MeshVertices) \cup ({EDGE} \X MeshEdges) \cup ({FACE} \X MeshFaces)

\* the pending record of component c in state S, if there is one
Pending(S, c) ==
    IF IdOf(S, c[1], c[2]) \in DOMAIN S.M.modifications
    THEN <<S.M.modifications[IdOf(S, c[1], c[2])]>>
    ELSE <<>>

\* C18 as stated: when a component whose pending record is 'added' or
\* 'Insert' is removed from the mesh before the next watch(), the pending
\* log holds no record for its id; when it is added again, the log keeps its
\* 'added' record
C18_AddRemoveCancel ==
    Running =>
        \A c \in Components :
            /\ Pending(St, c) # <<>>
            /\ Pending(St, c)[1].op \in {ADD, INSERT}
            => /\ Pending(MeshRemove(St, c[1], c[2]), c) = <<>>
               /\ Pending(St, c)[1].op = ADD =>
                      Pending(MeshAdd(St, c[1], c[2]), c) = Pending(St, c)

\* C19 as stated: once a component has been removed from the mesh, storing
\* an 'added', 'removed' or 'Insert' modification for it before the next
\* watch() raises an error
C19_RemovedRaises ==
    Running =>
        \A c \in Components :
            LET S == MeshRemove(St, c[1], c[2])
            IN  /\ Pending(S, c) # <<>>
                /\ Pending(S, c)[1].op = REMOVE
                => \A op \in {ADD, REMOVE, INSERT} :
                       ~Ok(store_modification(S, op, c[1], c[2], "", None))

(***************************************************************************)
(* Face.insert_face of a face on the boundary of the receiving face        *)
(***************************************************************************)
\* the corners of a ring: its points where the direction changes
Corners(ring) ==
    LET n == Len(ring)
        P(i) == ring[((i - 1) % n) + 1]
    IN  {ring[i] : i \in {j \in 1..n :
            cross_product(<<P(j)[1] - P(j - 1 + n)[1], P(j)[2] - P(j - 1 + n)[2]>>,
                          <<P(j + 1)[1] - P(j)[1], P(j + 1)[2] - P(j)[2]>>) # 0}}

\* the perimeter p runs along the boundary of face f
Coincides_Boundary(p, f) == Corners(p) = Corners(face_coords(St, f))

\* the square with one more vertex, in the middle of its top side
Halved == << <<0, 0>>, <<Side, 0>>, <<Side, Side>>, <<Half, Side>>, <<0, Side>> >>

\* the perimeters a caller inserts in face f
PerimetersOf(f) == Perimeters \cup {Halved, face_coords(St, f)}

\* the sizes of the collections of faces, edges and vertices of the mesh
Sizes(S) ==
    <<Cardinality(DOMAIN S.M.faces), Cardinality(DOMAIN S.M.edges),
      Cardinality(DOMAIN S.M.vertices)>>

\* the edge cycle of f is, in S, the cycle it was, with one face of the mesh
\* on all its edges
CycleKept(S, f) ==
    LET w == face_edges(St, f)
    IN  /\ Range(w) \subseteq EdgesOf(S)
        /\ \A e \in Range(w) : S.E[e].next = edges[e].next
        /\ \E g \in FacesOf(S) : \A e \in Range(w) : S.E[e].face = g

\* C20: inserting into a face f a face whose boundary coincides with the
\* boundary of f leaves the mesh with the numbers of faces, edges and
\* vertices it had before the candidate face was created; the edges of the
\* candidate are discarded, and the edge cycle of f is kept and has one face
C20_IdenticalInsert ==
    Running =>
        \A f \in MeshFaces : \A p \in PerimetersOf(f) :
            LET S1 == new_face_from_boundary(St, p)
                R == insert_face_from_boundary(St, f, p)
            IN  Coincides_Boundary(p, f) /\ Ok(S1) =>
                   /\ Ok(R)
                   /\ Sizes(R) = Sizes(St)
                   /\ EdgesOf(R) \cap (EdgesOf(S1) \ EdgesOf(St)) = {}
                   /\ CycleKept(R, f)

(***************************************************************************)
(* The faces that were removed from the mesh                               *)
(***************************************************************************)
\* C16: a face that was removed from the collection of faces of the mesh is
\* not a member of that collection again, after any operation, the insertion
\* of an identical face included
C16_RemovedStaysOut ==
    \A o \in mesh.left : o \notin MeshFaces

(***************************************************************************)
(* Edge.remove of an internal edge                                         *)
(***************************************************************************)
\* both half-edges of edge e are on the same face
SameFace(S, e) ==
    /\ S.E[e].pair # None
    /\ S.E[e].face # None
    /\ S.E[S.E[e].pair].face = S.E[e].face

\* edge e is an isolated dangling edge: it or its pair turns back at a lone
\* vertex
Dangling(S, e) == S.E[e].next = S.E[e].pair \/ S.E[S.E[e].pair].next = e

\* the lone vertex at the end of the dangling edge e
Lone(S, e) == IF S.E[e].next = S.E[e].pair THEN End(S, e) ELSE S.E[e].start

\* the mesh when remove() of an edge e between two faces comes to the edges
\* of the remaining face: the faces are merged and e and its pair are
\* removed, and remove() is called on the first dangling edge that is left
Merged(e) ==
    LET S1 == remove_separating(St, e, TRUE, edges[e].face, edges[edges[e].pair].face)
        S2 == remove_from_mesh(S1, EDGE, e)
    IN  IF Ok(S2) THEN remove_from_mesh(S2, EDGE, S2.E[e].pair) ELSE S2

\* the edges that divide two faces of the mesh
Dividers ==
    {e \in MeshEdges : edges[e].face # None /\ edges[edges[e].pair].face # None
                         /\ ~SameFace(St, e)}

\* C15: remove() of an internal edge that is not an isolated dangling edge
\* raises an error and leaves the mesh unchanged; remove() of an isolated
\* dangling edge removes the edge, its pair and its lone end vertex from the
\* mesh and keeps the face in the mesh
C15_RemoveInternal ==
    Running =>
        /\ \A e \in MeshEdges :
               SameFace(St, e) /\ ~Dangling(St, e) =>
                   LET R == remove(St, e, TRUE)
                   IN  R.err = "ValueError" /\ Untouched(R)
        /\ \A e \in Dividers :
               LET D == Merged(e)
               IN  Ok(D) =>
                      \A d \in EdgesOf(D) :
                          SameFace(D, d) /\ Dangling(D, d) =>
                              LET R == remove(D, d, TRUE)
                              IN  /\ Ok(R)
                                  /\ d \notin EdgesOf(R)
                                  /\ D.E[d].pair \notin EdgesOf(R)
                                  /\ Lone(D, d) \notin VerticesOf(R)
                                  /\ D.E[d].face \in FacesOf(R)

\* remove() of the edge that joins an inserted face to the boundary of the
\* face around it has just raised an error; an edge of the inserted face
\* leaves dangling edges when it is removed
C15_Witness ==
    /\ last.op = "remove"
    /\ last.err = "ValueError"
    /\ \E e \in MeshEdges : SameFace(St, e) /\ ~Dangling(St, e)
    /\ \E e \in Dividers :
           LET D == Merged(e)
           IN  Ok(D) /\ \E d \in EdgesOf(D) : SameFace(D, d) /\ Dangling(D, d)

(***************************************************************************)
(* Mesh.check: the areas of the faces and the area of the mesh             *)
(***************************************************************************)
\* the sum of the doubled areas of the faces fs
RECURSIVE SumArea2(_, _)
SumArea2(S, fs) ==
    IF fs = {} THEN 0
    ELSE LET f == CHOOSE x \in fs : TRUE
         IN  area2(S, f) + SumArea2(S, fs \ {f})

\* Mesh.boundary_as_sp: the starts of the boundary edges, in reverse order
boundary_coords(S) ==
    LET w == Good(siblings(S, S.M.edge))
    IN  [i \in 1..Len(w) |-> coords(S, S.E[w[Len(w) + 1 - i]].start)]

\* Mesh.area, doubled
mesh_area2(S) == Abs(Shoelace(boundary_coords(S), 1))

\* C3: after any sequence of successful insertions, cuts and merges on a
\* mesh built by from_boundary, the sum of the areas of the faces of the
\* mesh equals the area of the polygon of its boundary, within
\* COORD_EPSILON squared
C3_AreaKept ==
    Running =>
        pseudo_equal(SumArea2(St, MeshFaces), mesh_area2(St),
                     2 * COORD_EPSILON * COORD_EPSILON)

(***************************************************************************)
(* Face.insert_face of a face strictly inside the receiving face           *)
(***************************************************************************)
\* rectangles a caller inserts inside a face
Inner ==
    {Rect(Quarter, Quarter, Side - Quarter, Side - Quarter), Rect(2, 2, 4, 4),
     Rect(Half + 2, Half + 2, Side - 2, Side - 2)}

\* the point p is within COORD_EPSILON of the axis-parallel segment from a
\* to b
NearSegment(p, a, b) ==
    \A k \in 1..2 :
        /\ p[k] >= (IF a[k] < b[k] THEN a[k] ELSE b[k]) - COORD_EPSILON
        /\ p[k] <= (IF a[k] < b[k] THEN b[k] ELSE a[k]) + COORD_EPSILON

\* no point of the perimeter p is on the boundary of face f
Apart(p, f) ==
    \A i \in 1..Len(p) : \A e \in Range(Good(face_edges(St, f))) :
        ~NearSegment(p[i], coords(St, edges[e].start), coords(St, End(St, e)))

\* the edges that the insertion added with both half-edges on face f
Bridges(S1, R, f) ==
    {n \in EdgesOf(R) \ EdgesOf(S1) : R.E[n].face = f /\ R.E[R.E[n].pair].face = f}

Outer ==
    {Rect(Side + 2, 2, Side + 4, 4), Rect(Side - 2, 2, Side + 2, 4),
     Rect(Half - 2, 2, Half + 2, 4)}

\* the vertices, edges and faces of the mesh of S are the ones of the
\* current mesh
SameComponents(S) ==
    /\ S.M.vertices = mesh.vertices
    /\ S.M.edges = mesh.edges
    /\ S.M.faces = mesh.faces

Orphans(S0, R) ==
    {v \in VerticesOf(R) \ VerticesOf(S0) : \A e \in EdgesOf(R) : R.E[e].start # v}

\* the vectors of the lines that intersect follows
Lines == Vectors \cup {opposite_vector(v) : v \in Vectors}

\* C23: after intersect, cut or barycenter_cut has returned None, no vertex
\* that was created during the call is in the mesh without being the start
\* of an edge
C23_NoOrphanVertex ==
    Running =>
        /\ \A e \in FaceEdges : \A vec \in Lines : \A max_length \in {NoMax, ShortLength} :
               LET R == intersect(St, e, vec, max_length)
               IN  Ok(R) /\ R.ret = None => Orphans(St, R) = {}
        /\ \A c \in CutCalls :
               LET R == CutOf(c)
               IN  Ok(R) /\ R.ret = NoCut => Orphans(c.S0, R) = {}
        /\ \A e \in MeshEdges : \A coeff2 \in 0..2 :
               LET R == barycenter_cut(St, e, coeff2)
               IN  Ok(R) /\ R.ret = NoCut => Orphans(St, R) = {}

\* a cut has just returned None after it had projected a vertex, the last
\* component that the mesh numbered, which is not in the mesh
C23_Witness ==
    /\ last.op = "cut"
    /\ last.err = "none"
    /\ last.ret = NoCut
    /\ mesh.counter \notin DOMAIN mesh.vertices
    /\ mesh.counter \in DOMAIN mesh.modifications
    /\ mesh.modifications[mesh.counter].op = REMOVE
    /\ mesh.modifications[mesh.counter].type = VERTEX

(***************************************************************************)
(* Mesh.new_face_from_boundary on a boundary it refuses                    *)
(***************************************************************************)
\* boundary p is not the boundary of a face
NotABoundary(p) == Len(p) <= 2 \/ ~is_ccw(p) \/ ~is_simple(p)

\* C24: new_face_from_boundary raises on a boundary that has fewer than
\* three points, that is not counter-clockwise or that crosses itself, and
\* it has then created no component: the vertices, the edges and the faces
\* of the mesh, and its counter of ids, are the ones before the call
C24_RefusedBoundary ==
    Running =>
        \A p \in Refused \cup Perimeters \cup Boundaries :
            LET R == new_face_from_boundary(St, p)
            IN  /\ NotABoundary(p) =>
                      /\ R.err = (IF Len(p) <= 2 THEN "AssertionError" ELSE "ValueError")
                      /\ R.V = vertices /\ R.E = edges /\ R.F = faces
                      /\ R.M = mesh
                /\ ~NotABoundary(p) => Ok(R) /\ R.M.counter > mesh.counter

\* new_face_from_boundary has just refused a boundary in a mesh that was
\* split or cut before: the last id that the mesh gave is still in the mesh
C24_Witness ==
    /\ last.op = "new_face"
    /\ last.err = "ValueError"
    /\ steps = 2
    /\ mesh.counter \in DOMAIN mesh.edges \cup DOMAIN mesh.vertices

(***************************************************************************)
(* Vertices that are not mutable                                           *)
(***************************************************************************)
\* the vertices of the mesh whose mutable flag is False
Fixed == {v \in MeshVertices : ~vertices[v].mutable}

\* C25: Vertex.clean, Face.simplify, Face.recursive_simplify and
\* Mesh.simplify remove from the mesh no vertex whose mutable flag is False
C25_FixedKept ==
    Running =>
        /\ \A v \in MeshVertices : Fixed \subseteq VerticesOf(vertex_clean(St, v))
        /\ \A f \in MeshFaces :
               /\ Fixed \subseteq VerticesOf(simplify(St, f))
               /\ Fixed \subseteq VerticesOf(recursive_simplify(St, f))
        /\ Fixed \subseteq VerticesOf(mesh_simplify(St))

\* the same for Vertex.clean alone, which tests the flag
C25_CleanKeepsFixed ==
    Running => \A v \in MeshVertices : Fixed \subseteq VerticesOf(vertex_clean(St, v))

(***************************************************************************)
(* Vertex.clean                                                            *)
(***************************************************************************)
\* vertex v is mutable and has exactly two outgoing edges, which are aligned
Cleanable(v) ==
    LET w == vertex_edges(St, v)
    IN  /\ vertices[v].mutable
        /\ WalkOk(w) /\ Len(w) = 2
        /\ previous(St, vertices[v].edge) # None
        /\ next_is_aligned(St, previous(St, vertices[v].edge))

\* clean has left the mesh and every object as they were
CleanLeft(R) == [R EXCEPT !.ret = None] = St

\* clean has removed v and the two half-edges gone, which started at v, and
\* one edge pair joins the two neighbours of v
Joined(R, v, gone) ==
    /\ Len(gone) = 2 /\ gone[1] # gone[2]
    /\ \A i \in 1..2 : gone[i] \in MeshEdges /\ edges[gone[i]].start = v
    /\ VerticesOf(R) = MeshVertices \ {v}
    /\ EdgesOf(R) = MeshEdges \ {gone[1], gone[2]}
    /\ FacesOf(R) = MeshFaces
    /\ \E p, q \in EdgesOf(R) :
           /\ R.E[p].pair = q /\ R.E[q].pair = p
           /\ R.E[p].start = End(St, gone[1]) /\ R.E[q].start = End(St, gone[2])
           /\ R.E[p].start # R.E[q].start

\* C26: Vertex.clean changes the mesh only if the vertex is mutable and has
\* exactly two outgoing edges that are aligned; it then removes the vertex
\* and two half-edges, leaves one edge pair that joins the two neighbours
\* and returns the two half-edges it removed; in every other case the mesh
\* is unchanged and the empty list is returned
C26_CleanContract ==
    Running =>
        \A v \in MeshVertices :
            LET R == vertex_clean(St, v)
            IN  Ok(R) =>
                   IF Cleanable(v) THEN Joined(R, v, R.ret)
                   ELSE CleanLeft(R) /\ R.ret = <<>>

\* what clean does: the two half-edges that start at v are removed with it
\* when it is cleanable, and nothing changes otherwise; the list returned
\* holds the first removed edge and the edge that follows the other one
C26_CleanEffect ==
    Running =>
        \A v \in MeshVertices :
            LET R == vertex_clean(St, v)
                w == vertex_edges(St, v)
            IN  Ok(R) =>
                   IF Cleanable(v)
                   THEN /\ Joined(R, v, w)
                        /\ R.ret = <<w[1], edges[w[2]].next>>
                        /\ R.ret[2] \in EdgesOf(R)
                   ELSE /\ CleanLeft(R)
                        /\ R.ret = (IF ~vertices[v].mutable \/ Len(w) > 2 THEN <<>> ELSE Nothing)

(***************************************************************************)
(* Vertex.snap_to                                                          *)
(***************************************************************************)
\* the lists of one or two vertices of the mesh that v is snapped to
Candidates == {<<c>> : c \in MeshVertices} \cup {<<c, d>> : c, d \in MeshVertices}

\* the places of the list cs where snap_to returns: v itself, or a vertex
\* within COORD_EPSILON of v
Stops(v, cs) == {i \in 1..Len(cs) : cs[i] = v \/ is_close(St, v, cs[i])}

\* every edge that started at v starts at c, v has no anchor and is no longer
\* in the mesh, and nothing else has changed
Rewired(R, v, c) ==
    /\ DOMAIN R.E = DOMAIN edges
    /\ \A e \in DOMAIN edges :
           R.E[e] = [edges[e] EXCEPT !.start = IF @ = v THEN c ELSE @]
    /\ R.F = faces
    /\ DOMAIN R.V = DOMAIN vertices
    /\ \A u \in DOMAIN vertices \ {v} : R.V[u] = vertices[u]
    /\ R.V[v].edge = None
    /\ VerticesOf(R) = MeshVertices \ {v}
    /\ R.M.edges = mesh.edges /\ R.M.faces = mesh.faces

\* C27: v.snap_to(c1..cn) returns v and changes nothing when no candidate is
\* within COORD_EPSILON of v or when v is met in the list before one that
\* is; otherwise it returns the first candidate c within COORD_EPSILON,
\* every edge that started at v starts at c, v has no anchor edge and is no
\* longer in the mesh, and no next, pair or face link is changed
C27_SnapTo ==
    Running =>
        \A v \in MeshVertices : \A cs \in Candidates :
            LET R == snap_to(St, v, cs)
                stops == Stops(v, cs)
                first == CHOOSE i \in stops : \A j \in stops : i <= j
            IN  Ok(R) =>
                   IF stops = {} \/ cs[first] = v
                   THEN R.ret = v /\ Untouched(R)
                   ELSE R.ret = cs[first] /\ Rewired(R, v, cs[first])

\* no edge of the mesh runs from a vertex to itself
NoLoop == \A e \in MeshEdges : End(St, e) # edges[e].start

\* the same contract in a mesh that has no edge from a vertex to itself: the
\* edges that start at a vertex are then the edges of its fan
C27_SnapToFan ==
    Running /\ NoLoop =>
        \A v \in MeshVertices : \A cs \in Candidates :
            LET R == snap_to(St, v, cs)
                stops == Stops(v, cs)
                first == CHOOSE i \in stops : \A j \in stops : i <= j
            IN  /\ Ok(R)
                /\ IF stops = {} \/ cs[first] = v
                   THEN R.ret = v /\ Untouched(R)
                   ELSE R.ret = cs[first] /\ Rewired(R, v, cs[first])

(***************************************************************************)
(* Face.merge                                                              *)
(***************************************************************************)
\* a half-edge of face f has its pair on face g
Adjacent(f, g) ==
    \E e \in Range(Good(face_edges(St, f))) : edges[edges[e].pair].face = g

check_edge(S, f, e) ==
    /\ S.E[e].id \in DOMAIN S.M.edges
    /\ S.V[S.E[e].start].id \in DOMAIN S.M.vertices
    /\ S.E[S.E[e].pair].id \in DOMAIN S.M.edges
    /\ S.E[e].face = f
    /\ S.E[S.E[e].pair].pair = e
    /\ S.V[S.E[e].start].edge # None
    /\ S.E[S.V[S.E[e].start].edge].start = S.E[e].start
    /\ S.E[S.E[e].next].next # e
    /\ S.E[e].next # S.E[e].pair

\* the ids that check collects: the edges of the faces and of the boundary,
\* and their starts
checked_edges(S) ==
    UNION {Range(Good(face_edges(S, f))) : f \in FacesOf(S)}
        \cup Range(Good(siblings(S, S.M.edge)))

\* Mesh.check; an exception is not the answer True.  The polygon of a face
\* is tested after buffer(0), which gives a valid polygon
check(S) ==
    /\ \A f \in FacesOf(S) :
           /\ WalkOk(face_edges(S, f))
           /\ \A e \in Range(face_edges(S, f)) : check_edge(S, f, e)
    /\ S.M.edge # None
    /\ WalkOk(siblings(S, S.M.edge))
    /\ \A e \in Range(siblings(S, S.M.edge)) : S.E[e].face = None
    /\ \A v \in VerticesOf(S) : S.V[v].edge \in EdgesOf(S)
    /\ \A i \in DOMAIN S.M.edges : i \in {S.E[e].id : e \in checked_edges(S)}
    /\ \A i \in DOMAIN S.M.vertices :
           i \in {S.V[S.E[e].start].id : e \in checked_edges(S)}
    /\ pseudo_equal(SumArea2(S, FacesOf(S)), mesh_area2(S),
                    2 * COORD_EPSILON * COORD_EPSILON)

\* C29: Mesh.check returns True after every sequence of successful
\* insert_face_from_boundary, barycenter_cut and removal operations on a
\* mesh built by from_boundary
C29_CheckTrue == Running => check(St)

\* the tests of check that are made on the links, without the areas
C29_LinksChecked ==
    Running =>
        /\ \A f \in MeshFaces :
               /\ WalkOk(face_edges(St, f))
               /\ \A e \in Range(face_edges(St, f)) : check_edge(St, f, e)
        /\ \A e \in Range(siblings(St, mesh.edge)) : edges[e].face = None

(***************************************************************************)
(* C30: the mesh rebuilt from a serialized mesh is independent of it        *)
(***************************************************************************)
\* the second mesh as the program sees it when it takes it in hand
Twin == [St EXCEPT !.M = twin.M]

\* the vertices, edges and faces of a mesh: the ones in its collections and
\* the ones those lead to
Parts(S) == Reach(S, Roots(S))

InBoth ==
    (Parts(St).v \cap Parts(Twin).v) \cup (Parts(St).e \cap Parts(Twin).e)
        \cup (Parts(St).f \cap Parts(Twin).f)

\* C30: a mesh rebuilt by deserialize from the output of serialize has no
\* vertex, edge or face in common with the mesh that was serialized, and
\* whatever operations are applied to one of the two, serialize() of the
\* other still gives the value it gave before them
C30_Independent ==
    twin # NoMesh =>
        /\ InBoth = {}
        /\ Ok(serialize(Twin))
        /\ serialize(Twin).ret = twin.kept

\* an operation has changed one of the two meshes since the copy was made:
\* the two no longer serialize to the same value
C30_Witness ==
    /\ twin # NoMesh
    /\ Running
    /\ last.op \in {"split", "cut", "remove", "merge", "collapse", "link"}
    /\ steps = 2
    /\ serialize(St).ret # twin.kept
    /\ DOMAIN mesh.vertices # DOMAIN twin.kept.vertices

(***************************************************************************)
(* C31: the ids of the components of the mesh                               *)
(***************************************************************************)
\* mesh.components_id
components_id == DOMAIN mesh.vertices \cup DOMAIN mesh.edges \cup DOMAIN mesh.faces

\* C31: no id is the id of two components of the mesh, of one kind or of two;
\* each collection has a component at the id the component carries; and the
\* id that get_id gives next, counter + 1, is greater than every id in use,
\* after a deserialize as well
C31_Ids ==
    Running =>
    /\ DOMAIN mesh.vertices \cap DOMAIN mesh.edges = {}
    /\ DOMAIN mesh.vertices \cap DOMAIN mesh.faces = {}
    /\ DOMAIN mesh.edges \cap DOMAIN mesh.faces = {}
    /\ \A i \in DOMAIN mesh.vertices : vertices[mesh.vertices[i]].id = i
    /\ \A i \in DOMAIN mesh.edges : edges[mesh.edges[i]].id = i
    /\ \A i \in DOMAIN mesh.faces : faces[mesh.faces[i]].id = i
    /\ \A i \in components_id : i < mesh.counter + 1

\* the part of it that the counter gives: no id is in two collections, and
\* every id in use is below the next one that get_id gives
C31_IdsApart ==
    Running =>
    /\ DOMAIN mesh.vertices \cap DOMAIN mesh.edges = {}
    /\ DOMAIN mesh.vertices \cap DOMAIN mesh.faces = {}
    /\ DOMAIN mesh.edges \cap DOMAIN mesh.faces = {}
    /\ \A i \in DOMAIN mesh.edges : edges[mesh.edges[i]].id = i
    /\ \A i \in DOMAIN mesh.faces : faces[mesh.faces[i]].id = i
    /\ \A i \in components_id : i < mesh.counter + 1

(***************************************************************************)
(* C32: Edge.remove between two faces                                       *)
(***************************************************************************)
\* the edges of the two cycles that e.remove() joins, e and its pair apart
Joinable(e) == (Cycle(St, e) \cup Cycle(St, edges[e].pair)) \ {e, edges[e].pair}

\* what e.remove() has done, in R, for an edge e between the faces f and g
RemoveDone(R, e) ==
    LET f == edges[e].face
        g == edges[edges[e].pair].face
    IN  /\ Ok(R)
        /\ R.ret = g
        /\ e \notin EdgesOf(R)
        /\ edges[e].pair \notin EdgesOf(R)
        /\ EdgesOf(R) \subseteq MeshEdges
        /\ FacesOf(R) = MeshFaces \ {f}
        /\ Cardinality(FacesOf(R)) = Cardinality(MeshFaces) - 1
        /\ \A x \in EdgesOf(R) :
               /\ edges[x].face = f => R.E[x].face = g
               /\ edges[x].face # f => R.E[x].face = edges[x].face
        /\ \A x, y \in Joinable(e) \cap EdgesOf(R) : y \in Cycle(R, x)

Outline ==
    {e \in MeshEdges : (edges[e].face = None) # (edges[edges[e].pair].face = None)}

\* what e.remove() has done to the mesh, in R, for an edge e of the outline
OutlineRemoved(R, e) ==
    LET f == IF edges[e].face # None THEN edges[e].face ELSE edges[edges[e].pair].face
    IN  /\ e \notin EdgesOf(R)
        /\ edges[e].pair \notin EdgesOf(R)
        /\ f \notin FacesOf(R)
        /\ FacesOf(R) = MeshFaces \ {f}
        /\ \A x \in EdgesOf(R) :
               /\ edges[x].face = f => R.E[x].face = None
               /\ edges[x].face # f => R.E[x].face = edges[x].face

\* C33: e.remove() on an edge that has the outer region on exactly one side
\* returns without raising; the face on the other side has left the mesh,
\* the edges that stay have no face where they had it, and e and its pair
\* have left the mesh
C33_RemoveOutline ==
    Running /\ NoLoop =>
        \A e \in Outline :
            LET R == remove(St, e, TRUE)
            IN  Ok(R) /\ OutlineRemoved(R, e)

\* what the call does: the mesh is changed as said, and the call ends with
\* the AttributeError of remaining_face.edges, remaining_face being None
C33_RemoveOutlineRaises ==
    Running /\ NoLoop =>
        \A e \in Outline :
            LET R == remove(St, e, TRUE)
            IN  R.err = "AttributeError" /\ OutlineRemoved(R, e)

(***************************************************************************)
(* C34: Edge.split away from the ends of the edge                           *)
(***************************************************************************)
\* the calls of split whose vertex is near neither end of the edge
Inside(c) ==
    /\ c.v # c.S0.E[c.e].start
    /\ c.v # End(c.S0, c.e)
    /\ ~is_close(c.S0, c.v, c.S0.E[c.e].start)
    /\ ~is_close(c.S0, c.v, End(c.S0, c.e))

\* the same calls, and the ones with a new vertex in the middle of the edge
MiddleCalls ==
    SplitCalls \cup
    {[S0 |-> NewVertex(St, Barycenter(St, e)[1], Barycenter(St, e)[2], TRUE), e |-> e,
      v |-> Fresh(St)] : e \in FaceEdges}

\* what split has done, in R, when it has returned: the two half-edges it
\* added and their links, and what it left as it was
SplitDone(R, c) ==
    LET e == c.e
        p == edges[e].pair
        n == R.ret
        added == EdgesOf(R) \ MeshEdges
    IN  /\ Ok(R)
        /\ MeshEdges \subseteq EdgesOf(R)
        /\ Cardinality(added) = 2
        /\ n \in added
        /\ FacesOf(R) = MeshFaces
        /\ R.E[n].start = c.v
        /\ R.E[n].face = edges[e].face
        /\ R.E[n].next = edges[e].next
        /\ R.E[n].pair = p
        /\ \A np \in added \ {n} :
               /\ R.E[np].start = c.v
               /\ R.E[np].pair = e
               /\ R.E[e].pair = np
               /\ R.E[np].face = edges[p].face
               /\ R.E[np].next = edges[p].next
               /\ R.E[p].next = np
               /\ np \in Cycle(R, p)
        /\ R.E[e].next = n
        /\ n \in Cycle(R, e)
        /\ \A f \in MeshFaces : R.F[f].edge = faces[f].edge
        /\ R.M.edge = mesh.edge

\* each of the two cycles has one edge more
GrownByOne(R, c) ==
    /\ Cardinality(Cycle(R, c.e)) = Cardinality(Cycle(St, c.e)) + 1
    /\ Cardinality(Cycle(R, edges[c.e].pair)) = Cardinality(Cycle(St, edges[c.e].pair)) + 1

\* the cycle of the edge has the half-edge returned, the cycle of its pair has
\* the other one, and a cycle that both are on has the two
GrownByNew(R, c) ==
    LET e == c.e
        p == edges[e].pair
        added == EdgesOf(R) \ MeshEdges
    IN  /\ Cycle(R, e) = Cycle(St, e) \cup {R.ret}
                            \cup (IF p \in Cycle(St, e) THEN added ELSE {})
        /\ Cycle(R, p) = Cycle(St, p) \cup (added \ {R.ret})
                            \cup (IF e \in Cycle(St, p) THEN added ELSE {})

Logged(R, op, i, j) ==
    /\ i \in DOMAIN R.M.modifications
    /\ R.M.modifications[i].op = op
    /\ R.M.modifications[i].type = FACE
    /\ j # None => R.M.modifications[i].otype = FACE /\ R.M.modifications[i].oid = j

\* what a call of insert_face that has returned has returned and logged: f
\* is the receiving face and face the inserted one
InsertLogged(R, f, face) ==
    /\ (f \in Range(R.ret)) = (f \in FacesOf(R))
    /\ f \notin FacesOf(R) => Logged(R, REMOVE, faces[f].id, None)
    /\ Logged(R, INSERT, R.F[face].id, faces[f].id)

Collapsed(R, e) ==
    LET p == edges[e].pair
        start == edges[e].start
        end == End(St, e)
    IN  /\ Ok(R)
        /\ EdgesOf(R) = MeshEdges \ {e, p}
        /\ VerticesOf(R) = MeshVertices \ {start}
        /\ \A x \in EdgesOf(R) :
               R.E[x].start = IF edges[x].start = start THEN end ELSE edges[x].start
        /\ FacesOf(R) = MeshFaces
        /\ Cycle(R, edges[e].next) = Cycle(St, e) \ {e}
        /\ Cycle(R, edges[p].next) = Cycle(St, p) \ {p}

\* C36: e.collapse() removes from the mesh the edge, its pair and the start
\* vertex of the edge, and nothing else; the other edges that started at the
\* start vertex start at the end vertex; the faces are the same; each of the
\* two cycles has lost one edge
C36_Collapse ==
    Running /\ NoLoop => \A e \in MeshEdges : Collapsed(collapse(St, e), e)

\* the same for the edges whose ends are within COORD_EPSILON of one
\* another, the ones snap_to merges
C36_CollapseShort ==
    Running /\ NoLoop =>
        \A e \in MeshEdges :
            is_close(St, edges[e].start, End(St, e)) => Collapsed(collapse(St, e), e)

(***************************************************************************)
(* C37: Edge.recursive_cut                                                  *)
(***************************************************************************)
\* the direction of the first cut of the call c
Direction(c) ==
    IF c.vector # NoVector THEN c.vector
    ELSE unit_vector(abs_angle(vector(c.S0, c.e)) + 90)

\* the first cut of the call c
FirstCut(c) == cut(c.S0, c.e, c.v, 90, Direction(c), c.max_length)

\* the cut that follows the first one, in the same direction and without a
\* maximum length: from the pair of the edge the first cut ended on
SecondCut(c) ==
    LET S1 == FirstCut(c)
        new_edge_end == S1.ret[2]
    IN  cut(S1, S1.E[new_edge_end].pair, S1.E[new_edge_end].start, 90, Direction(c), NoMax)

\* the calls that go on in the direction of the first cut, without a maximum
\* length, and whose first cut succeeds
StraightCalls ==
    {c \in RecursiveCalls :
        /\ c.traverse = "absolute" /\ c.max_length = NoMax
        /\ Ok(FirstCut(c)) /\ FirstCut(c).ret # NoCut}

\* C37: recursive_cut returns None only if its first cut fails; when the
\* second cut fails it returns the triple of the first; when a callback
\* answers true after a cut, the mesh and the triple are the ones of that
\* cut: after the first cut for a callback that answers true at once, after
\* the second cut for a callback that answers false, then true
C37_RecursiveCut ==
    Running =>
        /\ \A c \in RecursiveCalls :
               LET R == RecursiveOf(c, NoCallback)
                   A == RecursiveOf(c, <<TRUE>>)
               IN  /\ Ok(R) /\ Ok(FirstCut(c)) => (R.ret = NoCut <=> FirstCut(c).ret = NoCut)
                   /\ Ok(FirstCut(c)) => A = FirstCut(c)
        /\ \A c \in StraightCalls :
               LET R == RecursiveOf(c, NoCallback)
                   B == RecursiveOf(c, <<FALSE, TRUE>>)
                   S2 == SecondCut(c)
               IN  /\ Ok(S2) /\ S2.ret = NoCut => Ok(R) /\ R.ret = FirstCut(c).ret
                   /\ Ok(S2) /\ S2.ret # NoCut => B = S2

\* a recursive cut has gone through two faces: the mesh had two faces at most
\* before it, and it has four
C37_Witness ==
    /\ last.op = "recursive_cut"
    /\ last.err = "none"
    /\ steps = 2
    /\ Cardinality(MeshFaces) = 4
    /\ last.ret # NoCut
    /\ last.ret[3] \in MeshFaces
    /\ \A f \in MeshFaces : faces[f].id <= faces[last.ret[3]].id

(***************************************************************************)
(* C38: Mesh.connected                                                      *)
(***************************************************************************)
\* two faces share a half-edge pair: an edge of the one has its pair on the
\* other
SharePair(f, g) ==
    \E e \in MeshEdges :
        /\ edges[e].pair # None
        /\ edges[e].face = f
        /\ edges[edges[e].pair].face = g

\* the faces of fs joined to a face of X by a chain of faces of fs that share
\* a pair
RECURSIVE Chained(_, _)
Chained(fs, X) ==
    LET Y == X \cup {g \in fs : \E f \in X : SharePair(f, g) \/ SharePair(g, f)}
    IN  IF Y = X THEN X ELSE Chained(fs, Y)

HoldTogether(fs) == fs = {} \/ \E f \in fs : Chained(fs, {f}) = fs

\* the half-edges of every face are one cycle, the one of the edge of the
\* face: Face.siblings reads the pairs of that cycle
OneCycle == \A e \in FaceEdges : e \in Cycle(St, faces[edges[e].face].edge)

Shrunk(R) ==
    /\ R.err # "Hang"
    /\ Ok(R) =>
          /\ EdgesOf(R) \subseteq MeshEdges
          /\ Cardinality(EdgesOf(R)) + Len(R.ret) <= Cardinality(MeshEdges)
          /\ \A k \in 1..Len(R.ret) : R.ret[k] \in MeshEdges \ EdgesOf(R)
          /\ (EdgesOf(R) = MeshEdges => Untouched(R))

\* C39: simplify, recursive_simplify and Mesh.simplify end: each collapse
\* takes an edge and its pair out of the mesh, and a call that takes no edge
\* out leaves the mesh as it is
C39_SimplifyEnds ==
    Running =>
        /\ \A f \in MeshFaces : Shrunk(simplify(St, f)) /\ Shrunk(recursive_simplify(St, f))
        /\ Shrunk(mesh_simplify(St))

\* recursive_simplify has collapsed an edge of a mesh of two faces at least:
\* the edge and its pair are listed, and are no longer in the mesh
C39_Witness ==
    /\ last.op = "recursive_simplify"
    /\ last.err = "none"
    /\ steps = MaxSteps
    /\ Len(last.ret) >= 2
    /\ \A k \in 1..Len(last.ret) : last.ret[k] \notin MeshEdges
    /\ Cardinality(MeshFaces) >= 2

(***************************************************************************)
(* C40: the mutable flag of the vertices through serialize and deserialize  *)
(***************************************************************************)
\* the mesh read from what the mesh of the state serializes
Restored == deserialize(serialize(St).ret)

\* what vertex.clean() gives in S: the exception, the ids of the edges
\* returned and the ids of the vertices left in the mesh
CleanOf(S, v) ==
    LET R == vertex_clean(S, v)
    IN  [err |-> R.err,
         ret |-> IF Ok(R)
                 THEN [k \in 1..Len(R.ret) |->
                          IF R.ret[k] = None THEN None ELSE R.E[R.ret[k]].id]
                 ELSE <<>>,
         left |-> IF Ok(R) THEN DOMAIN R.M.vertices ELSE {}]

\* C40: every vertex has in the restored mesh the mutable flag it has in the
\* mesh that was serialized, and Vertex.clean gives the same on both
C40_MutableRestored ==
    Running /\ Ok(serialize(St)) /\ Ok(Restored) =>
        \A i \in DOMAIN mesh.vertices :
            /\ i \in DOMAIN Restored.M.vertices
            /\ Restored.V[Restored.M.vertices[i]].mutable = vertices[mesh.vertices[i]].mutable
            /\ CleanOf(Restored, Restored.M.vertices[i]) = CleanOf(St, mesh.vertices[i])

\* every vertex of the restored mesh is mutable, and for the vertices that
\* are mutable in the mesh that was serialized Vertex.clean gives the same on
\* both
C40_AllMutable ==
    Running /\ NoLoop /\ Ok(serialize(St)) /\ Ok(Restored) =>
        \A i \in DOMAIN mesh.vertices :
            /\ i \in DOMAIN Restored.M.vertices
            /\ Restored.V[Restored.M.vertices[i]].mutable
            /\ vertices[mesh.vertices[i]].mutable
                  => CleanOf(Restored, Restored.M.vertices[i]) = CleanOf(St, mesh.vertices[i])

Init ==
    \E b \in Boundaries :
        (\E S \in {from_boundary(b)} :
            /\ vertices = S.V
            /\ edges = S.E
            /\ faces = S.F
            /\ mesh = S.M
            /\ heard = S.W
            /\ last = [op |-> "from_boundary", err |-> S.err, ret |-> <<>>]
            /\ steps = 0
            /\ twin = NoMesh)

Next ==
    \/ Split
    \/ Link
    \/ Cut
    \/ Remove
    \/ Collapse
    \/ VertexClean
    \/ FaceClean
    \/ Merge

Spec == Init /\ [][Next]_vars

\* the same operations, and Vertex.snap_to
NextSnap ==
    \/ Next
    \/ SnapTo

SpecSnap == Init /\ [][NextSnap]_vars

\* the same operations, and a serialize/deserialize round trip
NextReload ==
    \/ Next
    \/ Reload

SpecReload == Init /\ [][NextReload]_vars
\* splits, removals and cleanings, with watchers registered and notified by
\* the caller
NextWatch ==
    \/ Split
    \/ Remove
    \/ Collapse
    \/ FaceClean
    \/ AddWatcher
    \/ Watch

SpecWatch == Init /\ [][NextWatch]_vars

\* insertions of faces, in a mesh that is split and cut, with the removals
\* that undo them
NextInsert ==
    \/ InsertFace
    \/ InsertSame
    \/ Split
    \/ Cut
    \/ Remove

SpecInsert == Init /\ [][NextInsert]_vars
\* insertions, cuts and merges: the operations that make and join faces
NextArea ==
    \/ InsertFace
    \/ InsertSame
    \/ Cut
    \/ Merge

SpecArea == Init /\ [][NextArea]_vars

\* faces made from a boundary, in a mesh that is split, cut and undone
NextFace ==
    \/ NewFaceFrom
    \/ Split
    \/ Cut
    \/ Remove

SpecFace == Init /\ [][NextFace]_vars

\* simplifications and cleanings, in a mesh that is split and cut
NextSimplify ==
    \/ FaceSimplify
    \/ RecursiveSimplify
    \/ MeshSimplify
    \/ VertexClean
    \/ Split
    \/ Cut

SpecSimplify == Init /\ [][NextSimplify]_vars

\* insertions, barycenter cuts and removals of edges, which remove faces
NextCheck ==
    \/ InsertFace
    \/ InsertSame
    \/ BarycenterCut
    \/ Remove

SpecCheck == Init /\ [][NextCheck]_vars

\* two meshes, one rebuilt from what the other serialized, and the operations
\* applied to the one or the other
NextFork ==
    \/ Fork
    \/ Exchange
    \/ Split
    \/ Link
    \/ Cut
    \/ Remove
    \/ Collapse
    \/ Merge

SpecFork == Init /\ [][NextFork]_vars

\* insertions, which swap ids, splits, cuts and removals, in a mesh that is
\* written and read again
NextIds ==
    \/ InsertFace
    \/ InsertSame
    \/ Split
    \/ Cut
    \/ Remove
    \/ Reload

SpecIds == Init /\ [][NextIds]_vars
\* cuts that go on through the faces they reach, in a mesh that is linked
\* and cut
NextCut ==
    \/ RecursiveCut
    \/ Cut
    \/ Link

SpecCut == Init /\ [][NextCut]_vars

\* questions on the faces that hold together, in a mesh that is cut and
\* linked, where faces are inserted and edges removed
NextConnected ==
    \/ Connected
    \/ Cut
    \/ Link
    \/ InsertFace
    \/ Remove

SpecConnected == Init /\ [][NextConnected]_vars

====
